---- MODULE Spec2Model ----
(***************************************************************************)
(* TaskAgent (src/src/agent.js): the Durable Object that holds the task    *)
(* store, the conversation log and the identifier counter, its REST        *)
(* routes and its chat handler.                                            *)
(*                                                                         *)
(* JavaScript values are encoded with one type per field:                  *)
(*   - a JSON object is a record; an absent key is a key outside DOMAIN;   *)
(*   - text fields are strings, "" is the empty string;                    *)
(*   - created_at / updated_at are the clock reading (an integer, ISO      *)
(*     strings of one format compare as their instants do);                *)
(*   - due_date is an integer day, 0 standing for the falsy values that    *)
(*     `data.due_date || null` turns into null;                            *)
(*   - ids are integers, NaN is the result of Number() on non-numeric text.*)
(***************************************************************************)
EXTENDS Integers, Sequences, FiniteSets, TLC

\* ------------------------------------------------------------ bounds
\* Spec, SpecClock: at most MaxId identifiers are taken from the counter;
\* Spec, SpecClock, SpecList, SpecSched: at most MaxConv chat calls are made
MaxId == 2
MaxConv == 1
\* SpecClock: the wall clock runs from 0 to MaxClock
MaxClock == 1
\* SpecList: identifiers taken from the counter in one behaviour
MaxListId == 3
\* SpecSched: tasks in the store the advisor is asked about
MaxSchedTasks == 3
\* SpecChat, SpecConc: chat calls in one behaviour
MaxChats == 2

\* SpecIntent: words in a generated chat message
MaxWords == 2

\* SpecConc: the chat calls that can be in flight together
Procs == {1, 2}

\* ------------------------------------------------------------ values
\* Text a caller supplies (a title, a chat message) is a sequence of words
\* separated by single blanks; the other text fields are atoms.
NaN == -1
NonNumeric == -2
NoDue == 0
Undefined == "\\undefined"
UndefinedText == <<"\\undefined">>
NullBody == [json_null |-> TRUE]
\* a call slot with no call in flight
Idle == [pc |-> "idle"]

VARIABLES
    initialized,    \* this.initialized
    tasks,          \* this.tasks (index 1 is the front of the array)
    conversations,  \* this.conversations
    nextTaskId,     \* this.nextTaskId
    storage,        \* this.state.storage: keys tasks, conversations, nextTaskId
    now,            \* the wall clock read by new Date()
    assigned,       \* history: the ids handed out by #createTaskDirect, in order
    born,           \* history: how many tasks were ever created
    last,           \* history: the last call and what it returned
    calls           \* the chat calls suspended at an await of an outside service

vars == <<initialized, tasks, conversations, nextTaskId, storage, now, assigned, born, last, calls>>

\* ------------------------------------------------------------ helpers
Has(d, f) == f \in DOMAIN d

\* data.f || dflt for a text field
OrStr(d, f, dflt) == IF Has(d, f) /\ d[f] # "" /\ d[f] # Undefined THEN d[f] ELSE dflt

\* data.f || dflt for a numeric field
OrInt(d, f, dflt) == IF Has(d, f) /\ d[f] # 0 THEN d[f] ELSE dflt

\* data.f for a word-sequence field, undefined when the key is absent
GetText(d, f) == IF Has(d, f) THEN d[f] ELSE UndefinedText

\* !v for a word-sequence value
FalsyText(v) == v = <<>> \/ v = UndefinedText

\* mutation of FindIndex: the -1 of a failed search is used as an index,
\* which for splice(-1, 1) and at(-1) is the last element
FindIndex_LastWhenMissing(T, id) ==
    IF id # NaN /\ \E i \in 1..Len(T) : T[i].id = id
    THEN CHOOSE i \in 1..Len(T) : T[i].id = id /\ \A j \in 1..(i - 1) : T[j].id # id
    ELSE Len(T)

\* tasks.findIndex(t => t.id === id); 0 stands for -1 (NaN === x is false)
FindIndex(T, id) ==
    IF id # NaN /\ \E i \in 1..Len(T) : T[i].id = id
    THEN CHOOSE i \in 1..Len(T) : T[i].id = id /\ \A j \in 1..(i - 1) : T[j].id # id
    ELSE 0

\* mutation of the splice: splice(idx) without a count removes the task
\* and every task behind it
Splice_ToEnd(T, idx) == SubSeq(T, 1, idx - 1)

\* tasks.splice(idx, 1)
Splice(T, idx) == [i \in 1..(Len(T) - 1) |-> IF i < idx THEN T[i] ELSE T[i + 1]]

\* mutation of Object.assign: the { updated_at } source is left out
ObjectAssign_NoStamp(task, updates, clock) ==
    [f \in (DOMAIN task \cup DOMAIN updates) |->
        IF f \in DOMAIN updates THEN updates[f] ELSE task[f]]

\* Object.assign(task, updates, { updated_at }): later sources win
ObjectAssign(task, updates, clock) ==
    [f \in (DOMAIN task \cup DOMAIN updates \cup {"updated_at"}) |->
        IF f = "updated_at" THEN clock
        ELSE IF f \in DOMAIN updates THEN updates[f]
        ELSE task[f]]

\* ------------------------------------------------------------ lazy load
\* #ensureInitialized: what the fields hold once it has run
\* (an absent key reads as undefined: `|| []`, `|| 1`)
LoadedTasks == IF initialized THEN tasks ELSE storage.tasks
LoadedConversations == IF initialized THEN conversations ELSE storage.conversations
LoadedNextTaskId ==
    IF initialized THEN nextTaskId
    ELSE IF storage.nextTaskId = 0 THEN 1 ELSE storage.nextTaskId

\* #persist with every put succeeding
Persisted(T, C, N) == [tasks |-> T, conversations |-> C, nextTaskId |-> N]

\* ------------------------------------------------------------ task store
\* the task literal of #createTaskDirect
NewTask(id, data, clock, seq) ==
    [ id          |-> id,
      title       |-> GetText(data, "title"),
      description |-> OrStr(data, "description", ""),
      priority    |-> OrStr(data, "priority", "medium"),
      status      |-> OrStr(data, "status", "pending"),
      created_at  |-> clock,
      updated_at  |-> clock,
      due_date    |-> OrInt(data, "due_date", NoDue),
      tags        |-> OrStr(data, "tags", ""),
      metadata    |-> OrStr(data, "metadata", "null"),
      born        |-> seq ]

\* mutation of #createTaskDirect: the id is derived from the array length
createTaskDirect_LengthId(T, N, data, clock, seq) ==
    LET task == NewTask(Len(T) + 1, data, clock, seq)
    IN  [tasks |-> <<task>> \o T, nextTaskId |-> N + 1, task |-> task]

\* mutation of #createTaskDirect: push instead of unshift
createTaskDirect_Push(T, N, data, clock, seq) ==
    LET task == NewTask(N, data, clock, seq)
    IN  [tasks |-> Append(T, task), nextTaskId |-> N + 1, task |-> task]

\* #createTaskDirect: id = this.nextTaskId++; this.tasks.unshift(task)
createTaskDirect(T, N, data, clock, seq) ==
    LET task == NewTask(N, data, clock, seq)
    IN  [tasks |-> <<task>> \o T, nextTaskId |-> N + 1, task |-> task]

\* #updateTaskDirect
updateTaskDirect(T, id, updates, clock) ==
    LET idx == FindIndex(T, id)
    IN  IF idx = 0 THEN [ok |-> FALSE, tasks |-> T]
        ELSE [ok |-> TRUE, tasks |-> [T EXCEPT ![idx] = ObjectAssign(T[idx], updates, clock)]]

\* #listAllTasks
listAllTasks(T) == T

\* ------------------------------------------------------------ intent resolver
\* String.prototype.toLowerCase, word by word
LowerWord(w) ==
    CASE w = "Create" -> "create"
      [] w = "Show" -> "show"
      [] w = "Complete" -> "complete"
      [] w = "Delete" -> "delete"
      [] w = "Update" -> "update"
      [] w = "Mark" -> "mark"
      [] w = "Schedule" -> "schedule"
      [] w = "Analyze" -> "analyze"
      [] w = "Suggest" -> "suggest"
      [] w = "Hello" -> "hello"
      [] OTHER -> w

toLowerCase(msg) == [i \in 1..Len(msg) |-> LowerWord(msg[i])]

\* mutation of the keyword test: only the first word of the text is looked at
HasWord_FirstOnly(text, w) == Len(text) >= 1 /\ text[1] = w

\* /\bw\b/.test(text)
HasWord(text, w) == \E i \in 1..Len(text) : text[i] = w

\* /\bw1 w2 ... wn\b/.test(text)
HasPhrase(text, ws) ==
    \E i \in 1..Len(text) :
        /\ i + Len(ws) - 1 <= Len(text)
        /\ \A k \in 1..Len(ws) : text[i + k - 1] = ws[k]

\* \d+ words and Number() of them
DigitWords == {"0", "1", "2", "3", "4"}
NumberOf(w) ==
    CASE w = "0" -> 0 [] w = "1" -> 1 [] w = "2" -> 2 [] w = "3" -> 3 [] w = "4" -> 4 [] OTHER -> NaN

\* mutation of extractId: the last standalone number of the text is taken
WithTaskId_LastNumber(text, params) ==
    IF \E i \in 1..Len(text) : text[i] \in DigitWords
    THEN LET i == CHOOSE k \in 1..Len(text) :
                    /\ text[k] \in DigitWords
                    /\ \A j \in (k + 1)..Len(text) : text[j] \notin DigitWords
         IN  [f \in DOMAIN params \cup {"task_id"} |->
                IF f = "task_id" THEN NumberOf(text[i]) ELSE params[f]]
    ELSE params

\* text.match(/\b(\d+)\b/) and extractId: the first standalone number;
\* the key task_id is left out where extractId() is undefined
WithTaskId(text, params) ==
    IF \E i \in 1..Len(text) : text[i] \in DigitWords
    THEN LET i == CHOOSE k \in 1..Len(text) :
                    /\ text[k] \in DigitWords
                    /\ \A j \in 1..(k - 1) : text[j] \notin DigitWords
         IN  [f \in DOMAIN params \cup {"task_id"} |->
                IF f = "task_id" THEN NumberOf(text[i]) ELSE params[f]]
    ELSE params

\* where /(?:create|add)(?:\s+(?:a|the))?\s+task(?:\s+to)?\s+(.+)/ can match
\* with its verb at word i: the index at which group 1 starts, 0 for no match
TitleStartAt(text, i) ==
    LET n == Len(text)
        k == IF i + 2 <= n /\ text[i + 1] \in {"a", "the"} /\ text[i + 2] = "task" THEN i + 2
             ELSE IF i + 1 <= n /\ text[i + 1] = "task" THEN i + 1
             ELSE 0
    IN  IF text[i] \notin {"create", "add"} \/ k = 0 THEN 0
        ELSE IF k + 2 <= n /\ text[k + 1] = "to" THEN k + 2
        ELSE IF k + 1 <= n THEN k + 1
        ELSE 0

\* titleMatch ? titleMatch[1] : message
HeuristicTitle(text, message) ==
    IF \E i \in 1..Len(text) : TitleStartAt(text, i) # 0
    THEN LET i == CHOOSE k \in 1..Len(text) :
                    /\ TitleStartAt(text, k) # 0
                    /\ \A j \in 1..(k - 1) : TitleStartAt(text, j) = 0
         IN  SubSeq(text, TitleStartAt(text, i), Len(text))
    ELSE message

\* the priority keyword of the create and list rules: high, else low, else medium
WithPriorityHLM(text, params) ==
    IF HasWord(text, "high") THEN [params EXCEPT !.priority = "high"]
    ELSE IF HasWord(text, "low") THEN [params EXCEPT !.priority = "low"]
    ELSE IF HasWord(text, "medium") THEN [params EXCEPT !.priority = "medium"]
    ELSE [f \in DOMAIN params \ {"priority"} |-> params[f]]

\* the status keyword of the list rule
WithStatus(text, params) ==
    IF HasWord(text, "pending") THEN [params EXCEPT !.status = "pending"]
    ELSE IF HasWord(text, "complete") \/ HasWord(text, "completed")
         THEN [params EXCEPT !.status = "completed"]
    ELSE [f \in DOMAIN params \ {"status"} |-> params[f]]

\* the priority keyword of the update rule: the last of high, medium, low wins
UpdatePriority(text, params) ==
    IF HasWord(text, "low") THEN [f \in DOMAIN params \cup {"priority"} |->
                                     IF f = "priority" THEN "low" ELSE params[f]]
    ELSE IF HasWord(text, "medium") THEN [f \in DOMAIN params \cup {"priority"} |->
                                     IF f = "priority" THEN "medium" ELSE params[f]]
    ELSE IF HasWord(text, "high") THEN [f \in DOMAIN params \cup {"priority"} |->
                                     IF f = "priority" THEN "high" ELSE params[f]]
    ELSE params

NoParams == [f \in {} |-> 0]

\* analyzeIntent, the heuristic tier
heuristicIntent(message) ==
    LET text == toLowerCase(message)
    IN  IF HasWord(text, "create") \/ HasWord(text, "add") \/ HasPhrase(text, <<"new", "task">>)
        THEN [type |-> "create_task",
              parameters |-> WithPriorityHLM(text,
                  [title |-> HeuristicTitle(text, message), priority |-> Undefined])]
        ELSE IF HasWord(text, "list") \/ HasWord(text, "show") \/ HasWord(text, "display")
        THEN [type |-> "list_tasks",
              parameters |-> WithPriorityHLM(text,
                  WithStatus(text, [status |-> Undefined, priority |-> Undefined]))]
        ELSE IF \/ HasWord(text, "complete") \/ HasWord(text, "done") \/ HasWord(text, "finish")
                \/ HasPhrase(text, <<"mark", "as", "completed">>)
        THEN [type |-> "complete_task", parameters |-> WithTaskId(text, NoParams)]
        ELSE IF HasWord(text, "delete") \/ HasWord(text, "remove")
        THEN [type |-> "delete_task", parameters |-> WithTaskId(text, NoParams)]
        ELSE IF HasWord(text, "update") \/ HasWord(text, "change") \/ HasWord(text, "edit")
        THEN [type |-> "update_task",
              parameters |-> UpdatePriority(text, WithTaskId(text, NoParams))]
        ELSE IF HasWord(text, "schedule")
        THEN [type |-> "schedule_tasks", parameters |-> NoParams]
        ELSE IF \/ HasWord(text, "analyze") \/ HasWord(text, "analyse") \/ HasWord(text, "report")
                \/ HasWord(text, "stats") \/ HasWord(text, "insights")
        THEN [type |-> "analyze_productivity", parameters |-> NoParams]
        ELSE IF \/ HasWord(text, "suggest") \/ HasWord(text, "recommend")
                \/ HasPhrase(text, <<"what", "should", "i", "work">>)
        THEN [type |-> "get_suggestions", parameters |-> [context |-> "today"]]
        ELSE [type |-> "general", parameters |-> NoParams]

\* analyzeIntent, the model tier: the outcome `ai` of env.AI.run is an error,
\* a text with no {...} span, a {...} span JSON.parse rejects, or a parsed object;
\* the object is accepted when `result.type && result.parameters !== undefined`
ModelAccepts(ai) ==
    /\ ai.kind = "json"
    /\ Has(ai.value, "type") /\ ai.value.type # ""
    /\ Has(ai.value, "parameters")

\* mutation of analyzeIntent: a span JSON.parse throws on ends the
\* resolution with general instead of reaching the fallback rules
analyzeIntent_ParseErrorGeneral(message, ai) ==
    IF ModelAccepts(ai)
    THEN [type |-> ai.value.type, parameters |-> ai.value.parameters]
    ELSE IF ai.kind = "bad_json"
         THEN [type |-> "general", parameters |-> NoParams]
         ELSE heuristicIntent(message)

\* mutation of analyzeIntent: a message no rule matches is typed "unknown"
analyzeIntent_UnknownDefault(message, ai) ==
    IF ModelAccepts(ai)
    THEN [type |-> ai.value.type, parameters |-> ai.value.parameters]
    ELSE IF heuristicIntent(message).type = "general"
         THEN [type |-> "unknown", parameters |-> NoParams]
         ELSE heuristicIntent(message)

analyzeIntent(message, ai) ==
    IF ModelAccepts(ai)
    THEN [type |-> ai.value.type, parameters |-> ai.value.parameters]
    ELSE heuristicIntent(message)

\* ------------------------------------------------------------ dialogue engine
\* JSON null where an object is expected
NullParams == [json_null |-> TRUE]
IsNull(p) == Has(p, "json_null")

\* !task_id: undefined, 0 and NaN are falsy
MissingTaskId(p) == ~Has(p, "task_id") \/ p.task_id = 0 \/ p.task_id = NaN

\* Number(task_id)
ToNumber(v) == IF v = NonNumeric THEN NaN ELSE v

\* the keys a destructuring default replaces: absent or undefined
DefaultStr(p, f, dflt) == IF Has(p, f) /\ p[f] # Undefined THEN p[f] ELSE dflt
DefaultInt(p, f, dflt) == IF Has(p, f) THEN p[f] ELSE dflt

ErrorReply == [kind |-> "error"]

\* what a handler hands back: the fields it leaves and the text it returns;
\* `ids` are the identifiers it took from the counter
Outcome(T, N, response, ids) == [tasks |-> T, nextTaskId |-> N, response |-> response, ids |-> ids]

\* createTask
createTask(T, N, p, clock, seq) ==
    IF IsNull(p) THEN Outcome(T, N, ErrorReply, <<>>)
    ELSE IF FalsyText(GetText(p, "title")) THEN Outcome(T, N, [kind |-> "need_title"], <<>>)
    ELSE LET data == [ title       |-> p.title,
                       description |-> DefaultStr(p, "description", Undefined),
                       priority    |-> DefaultStr(p, "priority", "medium"),
                       due_date    |-> DefaultInt(p, "due_date", NoDue),
                       tags        |-> DefaultStr(p, "tags", Undefined) ]
             r == createTaskDirect(T, N, data, clock, seq)
         IN  Outcome(r.tasks, r.nextTaskId,
                     [kind |-> "created", id |-> r.task.id, title |-> r.task.title,
                      description |-> r.task.description, priority |-> r.task.priority,
                      due_date |-> r.task.due_date, tags |-> r.task.tags],
                     <<r.task.id>>)

\* the default of `limit` in listTasks
DefaultLimit == 10

\* mutation of the slice: the last `limit` tasks are kept
SliceTo_Tail(s, limit) ==
    IF limit <= 0 \/ limit >= Len(s) THEN s ELSE SubSeq(s, Len(s) - limit + 1, Len(s))

\* tasks.slice(0, limit)
SliceTo(s, limit) ==
    LET end == IF limit < 0 THEN (IF Len(s) + limit < 0 THEN 0 ELSE Len(s) + limit)
               ELSE IF limit < Len(s) THEN limit ELSE Len(s)
    IN  SubSeq(s, 1, end)

\* the lines listTasks prints for one task
Rendered(t) ==
    [title |-> t.title, description |-> t.description, priority |-> t.priority,
     status |-> t.status, due_date |-> t.due_date, tags |-> t.tags, id |-> t.id]

\* the tasks listTasks selects: status, then priority, then the limit
ListSelect(T, status, priority, limit) ==
    LET all == listAllTasks(T)
        s1 == IF status # "" THEN SelectSeq(all, LAMBDA t : t.status = status) ELSE all
        s2 == IF priority # "" THEN SelectSeq(s1, LAMBDA t : t.priority = priority) ELSE s1
    IN  SliceTo(s2, limit)

\* listTasks; a null status or priority is the falsy ""
listTasks(T, N, p) ==
    IF IsNull(p) THEN Outcome(T, N, ErrorReply, <<>>)
    ELSE LET sel == ListSelect(T, DefaultStr(p, "status", ""), DefaultStr(p, "priority", ""),
                               DefaultInt(p, "limit", DefaultLimit))
         IN  IF Len(sel) = 0 THEN Outcome(T, N, [kind |-> "no_match"], <<>>)
             ELSE Outcome(T, N, [kind |-> "list", items |-> [i \in 1..Len(sel) |-> Rendered(sel[i])]], <<>>)

\* updateTask: const { task_id, ...updates } = parameters
updateTask(T, N, p, clock) ==
    IF IsNull(p) THEN Outcome(T, N, ErrorReply, <<>>)
    ELSE IF MissingTaskId(p) THEN Outcome(T, N, [kind |-> "need_id", for |-> "update"], <<>>)
    ELSE LET updates == [f \in DOMAIN p \ {"task_id"} |-> p[f]]
             r == updateTaskDirect(T, ToNumber(p.task_id), updates, clock)
         IN  Outcome(r.tasks, N,
                     IF r.ok THEN [kind |-> "updated", task_id |-> p.task_id]
                     ELSE [kind |-> "not_found"], <<>>)

\* mutation of completeTask: a task that is already completed is refused
completeTask_RefuseCompleted(T, N, p, clock) ==
    IF IsNull(p) THEN Outcome(T, N, ErrorReply, <<>>)
    ELSE IF MissingTaskId(p) THEN Outcome(T, N, [kind |-> "need_id", for |-> "complete"], <<>>)
    ELSE LET idx == FindIndex(T, ToNumber(p.task_id))
             r == updateTaskDirect(T, ToNumber(p.task_id), [status |-> "completed"], clock)
         IN  IF idx # 0 /\ T[idx].status = "completed" THEN Outcome(T, N, [kind |-> "not_found"], <<>>)
             ELSE Outcome(r.tasks, N,
                          IF r.ok THEN [kind |-> "completed", task_id |-> p.task_id]
                          ELSE [kind |-> "not_found"], <<>>)

\* completeTask
completeTask(T, N, p, clock) ==
    IF IsNull(p) THEN Outcome(T, N, ErrorReply, <<>>)
    ELSE IF MissingTaskId(p) THEN Outcome(T, N, [kind |-> "need_id", for |-> "complete"], <<>>)
    ELSE LET r == updateTaskDirect(T, ToNumber(p.task_id), [status |-> "completed"], clock)
         IN  Outcome(r.tasks, N,
                     IF r.ok THEN [kind |-> "completed", task_id |-> p.task_id]
                     ELSE [kind |-> "not_found"], <<>>)

\* deleteTask
deleteTask(T, N, p) ==
    IF IsNull(p) THEN Outcome(T, N, ErrorReply, <<>>)
    ELSE IF MissingTaskId(p) THEN Outcome(T, N, [kind |-> "need_id", for |-> "delete"], <<>>)
    ELSE LET idx == FindIndex(T, ToNumber(p.task_id))
         IN  IF idx = 0 THEN Outcome(T, N, [kind |-> "not_found"], <<>>)
             ELSE Outcome(Splice(T, idx), N, [kind |-> "deleted", task_id |-> p.task_id], <<>>)

\* ------------------------------------------------------------ scheduling advisor
\* Infinity, the due time of an undated task
Infinity == 1000000

\* pri = v => (v === "high" ? 1 : v === "medium" ? 2 : 3)
pri(v) == IF v = "high" THEN 1 ELSE IF v = "medium" THEN 2 ELSE 3

\* mutation of the due time: an undated task counts as due at the epoch
DueTime_UndatedFirst(t) == IF t.due_date # NoDue THEN t.due_date ELSE 0

\* a.due_date ? Date.parse(a.due_date) : Infinity
DueTime(t) == IF t.due_date # NoDue THEN t.due_date ELSE Infinity

\* the comparator of scheduleTasks; Infinity - Infinity is NaN
comparefn(a, b) ==
    LET ap == pri(a.priority) - pri(b.priority)
    IN  IF ap # 0 THEN [nan |-> FALSE, v |-> ap]
        ELSE IF DueTime(a) = Infinity /\ DueTime(b) = Infinity THEN [nan |-> TRUE, v |-> 0]
        ELSE [nan |-> FALSE, v |-> DueTime(a) - DueTime(b)]

\* SortCompare of Array.prototype.sort: a NaN result counts as +0
SortCompare(a, b) == IF comparefn(a, b).nan THEN 0 ELSE comparefn(a, b).v

\* Array.prototype.sort is stable: x goes behind every element not greater than it
RECURSIVE InsertSorted(_, _)
InsertSorted(sorted, x) ==
    IF sorted = <<>> THEN <<x>>
    ELSE IF SortCompare(sorted[Len(sorted)], x) > 0
         THEN Append(InsertSorted(SubSeq(sorted, 1, Len(sorted) - 1), x), sorted[Len(sorted)])
         ELSE Append(sorted, x)

RECURSIVE StableSort(_)
StableSort(s) ==
    IF s = <<>> THEN <<>>
    ELSE InsertSorted(StableSort(SubSeq(s, 1, Len(s) - 1)), s[Len(s)])

\* the order scheduleTasks prints: the pending tasks, sorted
ScheduleOrder(T) == StableSort(SelectSeq(T, LAMBDA t : t.status = "pending"))

\* mutation of scheduleTasks: this.tasks itself is sorted (no copy is made)
scheduleTasks_SortsInPlace(T, N) ==
    LET sorted == ScheduleOrder(T)
    IN  IF Len(sorted) = 0 THEN Outcome(T, N, [kind |-> "nothing_pending"], <<>>)
        ELSE Outcome(StableSort(T), N,
                     [kind |-> "schedule",
                      items |-> [i \in 1..Len(sorted) |->
                          [title |-> sorted[i].title, due_date |-> sorted[i].due_date,
                           priority |-> sorted[i].priority]]], <<>>)

\* scheduleTasks
scheduleTasks(T, N) ==
    LET sorted == ScheduleOrder(T)
    IN  IF Len(sorted) = 0 THEN Outcome(T, N, [kind |-> "nothing_pending"], <<>>)
        ELSE Outcome(T, N, [kind |-> "schedule",
                            items |-> [i \in 1..Len(sorted) |->
                                [title |-> sorted[i].title, due_date |-> sorted[i].due_date,
                                 priority |-> sorted[i].priority]]], <<>>)

\* ------------------------------------------------------------ productivity
CountWhere(T, P(_)) == Cardinality({i \in 1..Len(T) : P(T[i])})

\* mutation of the rate: the percentage is truncated, not rounded
CompletionRate_Truncated(T) ==
    LET total == Len(T)
        completed == Cardinality({i \in 1..Len(T) : T[i].status = "completed"})
    IN  IF total > 0 THEN (100 * completed) \div total ELSE 0

\* Math.round((completed / total) * 100), 0 for an empty store
CompletionRate(T) ==
    LET total == Len(T)
        completed == CountWhere(T, LAMBDA t : t.status = "completed")
    IN  IF total > 0 THEN (200 * completed + total) \div (2 * total) ELSE 0

\* analyzeProductivity
analyzeProductivity(T, N) ==
    LET rate == CompletionRate(T)
    IN  Outcome(T, N,
            [kind |-> "analysis",
             total |-> Len(T),
             completed |-> CountWhere(T, LAMBDA t : t.status = "completed"),
             rate |-> rate,
             pending |-> CountWhere(T, LAMBDA t : t.status = "pending"),
             high |-> CountWhere(T, LAMBDA t : t.priority = "high"),
             medium |-> CountWhere(T, LAMBDA t : t.priority = "medium"),
             low |-> CountWhere(T, LAMBDA t : t.priority = "low"),
             tier |-> IF rate >= 80 THEN "excellent" ELSE IF rate >= 60 THEN "good" ELSE "you_can_do_it"],
            <<>>)

\* getTaskSuggestions: the second call of the capability succeeds (tipsOk) or throws
getTaskSuggestions(T, N, p, tipsOk) ==
    IF IsNull(p) THEN Outcome(T, N, ErrorReply, <<>>)
    ELSE Outcome(T, N, IF tipsOk THEN [kind |-> "suggestions"] ELSE [kind |-> "static_tips"], <<>>)

\* generalResponse
generalResponse(T, N) == Outcome(T, N, [kind |-> "help"], <<>>)

\* processUserMessage: the switch over intent.type, inside try/catch
processUserMessage(T, N, intent, clock, seq, tipsOk) ==
    LET p == intent.parameters
    IN  CASE intent.type = "create_task" -> createTask(T, N, p, clock, seq)
          [] intent.type = "list_tasks" -> listTasks(T, N, p)
          [] intent.type = "update_task" -> updateTask(T, N, p, clock)
          [] intent.type = "complete_task" -> completeTask(T, N, p, clock)
          [] intent.type = "delete_task" -> deleteTask(T, N, p)
          [] intent.type = "schedule_tasks" -> scheduleTasks(T, N)
          [] intent.type = "analyze_productivity" -> analyzeProductivity(T, N)
          [] intent.type = "get_suggestions" -> getTaskSuggestions(T, N, p, tipsOk)
          [] OTHER -> generalResponse(T, N)

\* mutation of the entry: the context of the call is dropped for the default
NewEntry_DefaultContext(C, message, response, clock, context) ==
    [ id            |-> Len(C) + 1,
      user_message  |-> message,
      agent_response |-> response,
      created_at    |-> clock,
      context       |-> "{}" ]

\* the entry chat() pushes
NewEntry(C, message, response, clock, context) ==
    [ id            |-> Len(C) + 1,
      user_message  |-> message,
      agent_response |-> response,
      created_at    |-> clock,
      context       |-> context ]

\* mutation of the push: the entry goes to the front of the log
PushEntry_Unshift(C, entry) == <<entry>> \o C

\* mutation of the push: the entry is written over the last one
PushEntry_Overwrite(C, entry) ==
    IF C = <<>> THEN <<entry>> ELSE [C EXCEPT ![Len(C)] = entry]

\* this.conversations.push(entry)
PushEntry(C, entry) == Append(C, entry)

\* ------------------------------------------------------------ inputs
\* ids a REST path names: Number(parts[1])
NamedIds == (1..(MaxId + 1)) \cup {NaN}

\* bodies of POST /tasks
CreateBodies ==
    { [title |-> <<"a">>],
      [priority |-> "high"],
      [title |-> <<>>, status |-> "completed"],
      NullBody }

\* bodies of PUT /tasks/:id
UpdateBodies ==
    { [priority |-> "high"],
      [id |-> 1] }

\* what env.AI.run gives analyzeIntent
AIError == [kind |-> "error"]
AIJson(type, parameters) == [kind |-> "json", value |-> [type |-> type, parameters |-> parameters]]

\* chat calls: the message and what the model tier answers
ChatInputs ==
    { << <<"Create", "a", "task", "to", "buy", "milk">>, AIError >>,
      << <<"Hello">>, AIJson("create_task", NoParams) >>,
      << <<"Delete", "task", "2">>, AIError >>,
      << <<"Delete", "task", "2">>, AIJson("delete_task", [task_id |-> NonNumeric]) >>,
      << <<"Update", "task", "1", "to", "high", "priority">>, AIError >>,
      << <<"Update", "task", "0">>, AIError >>,
      << <<"Hello">>, AIJson("update_task", [task_id |-> 2, id |-> 1]) >>,
      << <<"Complete", "task", "1">>, AIError >>,
      << <<"Show", "my", "pending", "tasks">>, AIError >>,
      << <<"Hello">>, AIJson("list_tasks", NullParams) >>,
      << <<"Hello">>, AIError >> }

\* chat calls of every intent type
AllIntentInputs ==
    { << <<"Create", "a", "task", "to", "buy", "milk">>, AIError >>,
      << <<"Show", "my", "pending", "tasks">>, AIError >>,
      << <<"Update", "task", "1", "to", "high", "priority">>, AIError >>,
      << <<"Complete", "task", "1">>, AIError >>,
      << <<"Delete", "task", "1">>, AIError >>,
      << <<"Schedule", "my", "tasks">>, AIError >>,
      << <<"Analyze", "my", "productivity">>, AIError >>,
      << <<"Suggest", "something">>, AIError >>,
      << <<"Hello">>, AIError >>,
      << <<"Hello">>, AIJson("create_task", NoParams) >>,
      << <<"Hello">>, AIJson("list_tasks", NullParams) >>,
      << <<"Hello">>, AIJson("get_suggestions", NullParams) >> }

Contexts == {"{}", "voice"}

\* ------------------------------------------------------------ REST routes
\* GET /tasks
RestList ==
    /\ initialized' = TRUE
    /\ tasks' = LoadedTasks
    /\ conversations' = LoadedConversations
    /\ nextTaskId' = LoadedNextTaskId
    /\ last' = [op |-> "rest_list", status |-> 200, tasks |-> listAllTasks(LoadedTasks)]
    /\ UNCHANGED <<storage, now, assigned, born, calls>>

\* GET /tasks/:id
RestGet(id) ==
    LET idx == FindIndex(LoadedTasks, id)
    IN  /\ initialized' = TRUE
        /\ tasks' = LoadedTasks
        /\ conversations' = LoadedConversations
        /\ nextTaskId' = LoadedNextTaskId
        /\ last' = [op |-> "rest_get", status |-> IF idx = 0 THEN 404 ELSE 200]
        /\ UNCHANGED <<storage, now, assigned, born, calls>>

\* POST /tasks
RestCreate(data) ==
    /\ initialized' = TRUE
    /\ conversations' = LoadedConversations
    /\ IF IsNull(data)
       THEN \* `data.title` throws after `this.nextTaskId++`
            /\ nextTaskId' = LoadedNextTaskId + 1
            /\ tasks' = LoadedTasks
            /\ last' = [op |-> "rest_create", status |-> 500]
            /\ UNCHANGED <<storage, assigned, born>>
       ELSE LET r == createTaskDirect(LoadedTasks, LoadedNextTaskId, data, now, born + 1)
            IN  /\ tasks' = r.tasks
                /\ nextTaskId' = r.nextTaskId
                /\ storage' = Persisted(r.tasks, LoadedConversations, r.nextTaskId)
                /\ assigned' = Append(assigned, r.task.id)
                /\ born' = born + 1
                /\ last' = [op |-> "rest_create", status |-> 201, id |-> r.task.id]
    /\ UNCHANGED <<now, calls>>

\* PUT /tasks/:id
RestUpdate(id, data) ==
    LET r == updateTaskDirect(LoadedTasks, id, data, now)
    IN  /\ initialized' = TRUE
        /\ tasks' = r.tasks
        /\ conversations' = LoadedConversations
        /\ nextTaskId' = LoadedNextTaskId
        /\ storage' = IF r.ok THEN Persisted(r.tasks, LoadedConversations, LoadedNextTaskId)
                      ELSE storage
        /\ last' = IF r.ok THEN [op |-> "rest_update", status |-> 200, data |-> data]
                   ELSE [op |-> "rest_update", status |-> 404]
        /\ UNCHANGED <<now, assigned, born, calls>>

\* DELETE /tasks/:id
RestDelete(id) ==
    LET idx == FindIndex(LoadedTasks, id)
    IN  /\ initialized' = TRUE
        /\ conversations' = LoadedConversations
        /\ nextTaskId' = LoadedNextTaskId
        /\ tasks' = IF idx = 0 THEN LoadedTasks ELSE Splice(LoadedTasks, idx)
        /\ storage' = IF idx = 0 THEN storage
                      ELSE Persisted(Splice(LoadedTasks, idx), LoadedConversations, LoadedNextTaskId)
        /\ last' = [op |-> "rest_delete", status |-> IF idx = 0 THEN 404 ELSE 200]
        /\ UNCHANGED <<now, assigned, born, calls>>

\* ------------------------------------------------------------ chat
\* chat(message, context): processUserMessage, push, #persist, return
ChatOutcome(message, ai, tipsOk) ==
    processUserMessage(LoadedTasks, LoadedNextTaskId, analyzeIntent(message, ai), now, born + 1, tipsOk)

Chat(message, context, ai, tipsOk) ==
    LET C == LoadedConversations
        intent == analyzeIntent(message, ai)
        r == ChatOutcome(message, ai, tipsOk)
        C2 == PushEntry(C, NewEntry(C, message, r.response, now, context))
    IN  /\ initialized' = TRUE
        /\ tasks' = r.tasks
        /\ nextTaskId' = r.nextTaskId
        /\ conversations' = C2
        /\ storage' = Persisted(r.tasks, C2, r.nextTaskId)
        /\ assigned' = assigned \o r.ids
        /\ born' = born + Len(r.ids)
        /\ last' = [op |-> "chat", intent |-> intent, response |-> r.response]
        /\ UNCHANGED <<now, calls>>

\* time passes between calls
Tick ==
    /\ now < MaxClock
    /\ now' = now + 1
    /\ UNCHANGED <<initialized, tasks, conversations, nextTaskId, storage, assigned, born, last, calls>>

\* ------------------------------------------------------------ specification
\* constructor: initialized = false; nothing is stored yet
Init ==
    /\ initialized = FALSE
    /\ tasks = <<>>
    /\ conversations = <<>>
    /\ nextTaskId = 0
    /\ storage = [tasks |-> <<>>, conversations |-> <<>>, nextTaskId |-> 0]
    /\ now = 0
    /\ assigned = <<>>
    /\ born = 0
    /\ last = [op |-> "none"]
    /\ calls = [p \in Procs |-> Idle]

\* every entry point of the task store, called one at a time
Next ==
    \/ RestList
    \/ \E id \in NamedIds : RestGet(id)
    \/ \E data \in CreateBodies : LoadedNextTaskId <= MaxId /\ RestCreate(data)
    \/ \E id \in NamedIds, data \in UpdateBodies : RestUpdate(id, data)
    \/ \E id \in NamedIds : RestDelete(id)
    \/ \E i \in ChatInputs, c \in {"{}"} :
        /\ Len(LoadedConversations) < MaxConv
        /\ ChatOutcome(i[1], i[2], TRUE).nextTaskId <= MaxId + 1
        /\ Chat(i[1], c, i[2], TRUE)

Spec == Init /\ [][Next]_vars

\* ------------------------------------------------------------ properties
\* no task of T carries the id
Absent(T, id) == \A i \in 1..Len(T) : T[i].id # id

\* a step leaves the task collection and the identifier counter as they were
StoreUntouched == tasks' = LoadedTasks /\ nextTaskId' = LoadedNextTaskId

\* C1: the identifiers assigned by successive creates (POST /tasks, chat
\* create_task) strictly increase, so none is assigned twice, whatever
\* deletes happen in between
IdsStrictlyIncreasing ==
    \A i, j \in 1..Len(assigned) : i < j => assigned[i] < assigned[j]

\* C1 witness: two creates, the second one by chat after the first task
\* was deleted
SecondCreateAfterDelete ==
    /\ initialized /\ Len(assigned) = 2 /\ Len(tasks) = 1
    /\ last.op = "chat" /\ last.response.kind = "created"

\* C2: no two tasks in the store have the same id, after any sequence
\* of create, update (with any payload) and delete
UniqueTaskIds ==
    \A i, j \in 1..Len(LoadedTasks) : i # j => LoadedTasks[i].id # LoadedTasks[j].id

\* C4: a create whose title is empty or absent fails with a validation
\* error, through POST /tasks and through the chat create_task intent, and
\* leaves the task collection and the identifier counter unchanged
CreateWithoutTitleFails ==
    [][ /\ \A data \in CreateBodies :
            (last'.op = "rest_create" /\ FalsyText(GetText(data, "title")) /\ RestCreate(data))
                => (last'.status \notin {200, 201} /\ StoreUntouched)
        /\ \A i \in ChatInputs, c \in Contexts :
            LET intent == analyzeIntent(i[1], i[2])
            IN  ( /\ last'.op = "chat"
                  /\ intent.type = "create_task"
                  /\ FalsyText(GetText(intent.parameters, "title"))
                  /\ Chat(i[1], c, i[2], TRUE) )
                => (last'.response.kind # "created" /\ StoreUntouched)
      ]_vars

\* the parameters of an intent name a task: a positive number, or text
\* that is no number
NamesTask(p) ==
    /\ ~IsNull(p) /\ Has(p, "task_id")
    /\ (p.task_id > 0 \/ p.task_id = NonNumeric)

LaterStamp == MaxClock + 1

\* bodies of PUT /tasks/:id
ClockBodies ==
    { [priority |-> "high"],
      [status |-> "completed"],
      [created_at |-> LaterStamp] }

ClockChats ==
    { << <<"Update", "task", "1", "to", "high", "priority">>, AIError >>,
      << <<"Complete", "task", "2">>, AIError >> }

\* creates, updates and deletes while the clock advances
NextClock ==
    \/ Tick
    \/ LoadedNextTaskId <= MaxId /\ RestCreate([title |-> <<"a">>])
    \/ \E id \in 1..MaxId, data \in ClockBodies : RestUpdate(id, data)
    \/ \E id \in 1..MaxId : RestDelete(id)
    \/ \E i \in ClockChats :
        /\ Len(LoadedConversations) < MaxConv
        /\ Chat(i[1], "{}", i[2], TRUE)

SpecClock == Init /\ [][NextClock]_vars

\* C3: every task has updated_at >= created_at (created_at is set once at
\* creation, updated_at is set to the current time on creation and on every
\* update, whatever the update payload carries)
UpdatedNotBeforeCreated ==
    \A i \in 1..Len(LoadedTasks) : LoadedTasks[i].updated_at >= LoadedTasks[i].created_at

\* the task at index k of T after an update that sets only its priority to
\* "high" at time `clock`, every other field as it was
OnlyPriorityAndStamp(before, after, clock) ==
    /\ DOMAIN after = DOMAIN before
    /\ after.priority = "high"
    /\ after.updated_at = clock
    /\ \A f \in DOMAIN before \ {"priority", "updated_at"} : after[f] = before[f]

\* the frame of an update of the task with this id: the first task carrying
\* the id changes as OnlyPriorityAndStamp says, nothing else does
PriorityFrame(id) ==
    LET T == LoadedTasks
        k == CHOOSE i \in 1..Len(T) : T[i].id = id /\ \A j \in 1..(i - 1) : T[j].id # id
    IN  /\ Len(tasks') = Len(T)
        /\ OnlyPriorityAndStamp(T[k], tasks'[k], now)
        /\ \A i \in 1..Len(T) : i # k => tasks'[i] = T[i]
        /\ nextTaskId' = LoadedNextTaskId

\* C6: an update of an existing task with the payload {priority: "high"}
\* (PUT /tasks/:id, chat update_task) changes exactly that task's priority
\* and updated_at; its other fields, the other tasks, the store order and
\* the identifier counter are unchanged
PriorityUpdateChangesOnlyPriority ==
    [][ /\ \A id \in 1..MaxId :
            ( /\ last'.op = "rest_update"
              /\ ~Absent(LoadedTasks, id)
              /\ RestUpdate(id, [priority |-> "high"]) )
            => (last'.status = 200 /\ PriorityFrame(id))
        /\ \A i \in ClockChats :
            LET intent == analyzeIntent(i[1], i[2])
            IN  ( /\ last'.op = "chat"
                  /\ intent = [type |-> "update_task",
                               parameters |-> [task_id |-> 1, priority |-> "high"]]
                  /\ ~Absent(LoadedTasks, 1)
                  /\ Chat(i[1], "{}", i[2], TRUE) )
                => (last'.response.kind = "updated" /\ PriorityFrame(1))
      ]_vars

\* C6 witness: the second of two tasks, created at an earlier time and
\* since completed, was given priority "high" by PUT
PriorityRaisedLater ==
    /\ last.op = "rest_update" /\ last.status = 200 /\ last.data = [priority |-> "high"]
    /\ Len(tasks) = 2
    /\ tasks[2].priority = "high" /\ tasks[2].status = "completed"
    /\ tasks[2].created_at < now /\ tasks[2].updated_at = now
    /\ tasks[1].priority = "medium"

\* ------------------------------------------------------------ listing
\* bodies of POST /tasks
ListBodies ==
    { [title |-> <<"a">>],
      [title |-> <<"b">>, status |-> "completed"] }

ListChats ==
    { << <<"Show", "my", "tasks">>, AIError >>,
      << <<"Show", "my", "pending", "tasks">>, AIError >>,
      << <<"Show", "my", "completed", "tasks">>, AIError >>,
      << <<"Hello">>, AIJson("list_tasks", [status |-> "completed", limit |-> 10]) >> }

\* creates, completions and deletes, then a listing
NextList ==
    \/ \E data \in ListBodies : LoadedNextTaskId <= MaxListId /\ RestCreate(data)
    \/ \E id \in 1..MaxListId : RestUpdate(id, [status |-> "completed"])
    \/ \E id \in 1..MaxListId : RestDelete(id)
    \/ RestList
    \/ \E i \in ListChats :
        /\ Len(LoadedConversations) < MaxConv
        /\ Chat(i[1], "{}", i[2], TRUE)

SpecList == Init /\ [][NextList]_vars

\* the sequence is ordered from the most recently created task to the oldest
NewestFirst(T) == \A i, j \in 1..Len(T) : i < j => T[i].born > T[j].born

\* the positions of T whose task has the status
Matching(T, status) == {i \in 1..Len(T) : T[i].status = status}

\* the k-th smallest member of a set of positions
Nth(S, k) == CHOOSE i \in S : Cardinality({j \in S : j < i}) = k - 1

\* the status the parameters of a list intent filter by, "" for none
FilterOf(p) == IF Has(p, "status") /\ p.status # Undefined THEN p.status ELSE ""

DueDays == {2, 5, 10}

\* what the tasks of a store differ in: pending tasks of every priority,
\* dated or not, and completed tasks
Shapes ==
    [priority : {"high", "medium", "low"}, status : {"pending"}, due_date : DueDays \cup {NoDue}]
        \cup {[priority |-> "medium", status |-> "completed", due_date |-> NoDue]}

TitleOf(id) == <<"task", ToString(id)>>

\* a store left by n creates: ids n..1 from the front, the counter at n + 1
StoreOf(n, shape) ==
    [ tasks |-> [i \in 1..n |->
                    NewTask(n - i + 1,
                            [title |-> TitleOf(n - i + 1), priority |-> shape[i].priority,
                             status |-> shape[i].status, due_date |-> shape[i].due_date],
                            0, n - i + 1)],
      conversations |-> <<>>,
      nextTaskId |-> IF n = 0 THEN 0 ELSE n + 1 ]

\* a freshly constructed instance over a store persisted earlier
InitSched ==
    /\ initialized = FALSE
    /\ tasks = <<>>
    /\ conversations = <<>>
    /\ nextTaskId = 0
    /\ \E n \in 0..MaxSchedTasks : \E shape \in [1..n -> Shapes] : storage = StoreOf(n, shape)
    /\ now = 0
    /\ assigned = <<>>
    /\ born = Len(storage.tasks)
    /\ last = [op |-> "none"]
    /\ calls = [p \in Procs |-> Idle]

SchedChats ==
    { << <<"Schedule", "my", "tasks">>, AIError >>,
      << <<"Hello">>, AIJson("schedule_tasks", NullParams) >> }

NextSched ==
    \E i \in SchedChats :
        /\ Len(LoadedConversations) < MaxConv
        /\ Chat(i[1], "{}", i[2], TRUE)

SpecSched == InitSched /\ [][NextSched]_vars

\* priority rank: high before medium before low
Rank(t) == CASE t.priority = "high" -> 1 [] t.priority = "medium" -> 2 [] OTHER -> 3

\* a is due earlier than b, an undated task being due after every dated one
DueEarlier(a, b) ==
    /\ a.due_date # NoDue
    /\ (b.due_date = NoDue \/ a.due_date < b.due_date)

\* the task at position i of T goes before the one at position j
GoesBefore(T, i, j) ==
    \/ Rank(T[i]) < Rank(T[j])
    \/ /\ Rank(T[i]) = Rank(T[j])
       /\ \/ DueEarlier(T[i], T[j])
          \/ (T[i].due_date = T[j].due_date /\ i < j)

\* the priority and due date of each task or line, in order
Keys(s) == [i \in 1..Len(s) |-> <<s[i].priority, s[i].due_date>>]

NextChat ==
    \E i \in AllIntentInputs, c \in Contexts, tipsOk \in BOOLEAN :
        /\ Len(LoadedConversations) < MaxChats
        /\ Chat(i[1], c, i[2], tipsOk)

SpecChat == Init /\ [][NextChat]_vars

\* C9: each chat call appends exactly one entry to the log, whose
\* user_message is the call's message, whose agent_response is the text
\* returned to the caller and whose context is the call's context, for
\* every intent type and also when the handler threw
ChatAppendsOneEntry ==
    [][ \A i \in AllIntentInputs, c \in Contexts, tipsOk \in BOOLEAN :
            (last'.op = "chat" /\ Chat(i[1], c, i[2], tipsOk)) =>
                LET C == LoadedConversations
                    e == conversations'[Len(conversations')]
                IN  /\ Len(conversations') = Len(C) + 1
                    /\ SubSeq(conversations', 1, Len(C)) = C
                    /\ e.user_message = i[1]
                    /\ e.context = c
                    /\ e.agent_response = last'.response
                    /\ last'.response = ChatOutcome(i[1], i[2], tipsOk).response
                    /\ storage'.conversations = conversations'
      ]_vars

\* C9 witness: the second call, made with a context, hit the catch block and
\* its generic reply is the second entry of the log
ErrorReplyLogged ==
    /\ last.op = "chat" /\ last.response = ErrorReply
    /\ Len(conversations) = 2
    /\ conversations[2].agent_response = ErrorReply
    /\ conversations[2].context = "voice"
    /\ conversations[1].agent_response.kind = "created"

\* ------------------------------------------------------------ concurrent chat calls
\* A Durable Object runs one event at a time and delivers no other event
\* while a storage read or write of the running one is pending; another call
\* gets in only where the running one awaits an outside service: env.AI.run
\* in analyzeIntent and getTaskSuggestions, env.TASK_MEMORY in createTask.

ConcChats ==
    { << <<"Create", "a", "task", "to", "buy", "milk">>, AIError >>,
      << <<"Delete", "task", "1">>, AIError >>,
      << <<"Suggest", "something">>, AIError >>,
      << <<"Hello">>, AIError >>,
      << <<"Hello">>, AIJson("create_task", NullParams) >> }

\* chat calls begun so far
Begun == Len(LoadedConversations) + Cardinality({p \in Procs : calls[p] # Idle})

\* chat(): #ensureInitialized, then processUserMessage up to the await of
\* env.AI.run in analyzeIntent
ChatBegin(p, message, context, ai) ==
    /\ calls[p] = Idle
    /\ initialized' = TRUE
    /\ tasks' = LoadedTasks
    /\ conversations' = LoadedConversations
    /\ nextTaskId' = LoadedNextTaskId
    /\ calls' = [calls EXCEPT ![p] =
                    [pc |-> "intent", message |-> message, context |-> context, ai |-> ai,
                     seen |-> Len(LoadedConversations)]]
    /\ UNCHANGED <<storage, now, assigned, born, last>>

\* the push of chat() and the #persist after it, for the call in slot p
Pushed(p, intent, response) ==
    LET C2 == PushEntry(conversations,
                        NewEntry(conversations, calls[p].message, response, now, calls[p].context))
    IN  /\ conversations' = C2
        /\ storage' = Persisted(tasks', C2, nextTaskId')
        /\ calls' = [calls EXCEPT ![p] = Idle]
        /\ last' = [op |-> "chat", intent |-> intent, response |-> response,
                    seen |-> calls[p].seen]

\* env.AI.run has answered: the intent is resolved and its handler runs, to
\* the end of chat() or to the handler's own await of an outside service
\* (TASK_MEMORY after a create when the binding exists, env.AI.run for
\* suggestions)
ChatResolve(p, tipsOk, hasMemory) ==
    /\ calls[p].pc = "intent"
    /\ LET intent == analyzeIntent(calls[p].message, calls[p].ai)
           r == processUserMessage(tasks, nextTaskId, intent, now, born + 1, tipsOk)
           suspends == \/ (r.response.kind = "created" /\ hasMemory)
                       \/ r.response.kind \in {"suggestions", "static_tips"}
       IN  /\ tasks' = r.tasks
           /\ nextTaskId' = r.nextTaskId
           /\ assigned' = assigned \o r.ids
           /\ born' = born + Len(r.ids)
           /\ IF suspends
              THEN /\ calls' = [calls EXCEPT ![p] =
                                  [pc |-> "reply", message |-> calls[p].message,
                                   context |-> calls[p].context, intent |-> intent,
                                   response |-> r.response, seen |-> calls[p].seen]]
                   /\ storage' = IF r.ids # <<>>
                                 THEN Persisted(r.tasks, conversations, r.nextTaskId)
                                 ELSE storage
                   /\ UNCHANGED <<conversations, last>>
              ELSE Pushed(p, intent, r.response)
    /\ UNCHANGED <<initialized, now>>

\* the outside service has answered: the handler returns and chat() pushes
ChatFinish(p) ==
    /\ calls[p].pc = "reply"
    /\ UNCHANGED <<initialized, tasks, nextTaskId, now, assigned, born>>
    /\ Pushed(p, calls[p].intent, calls[p].response)

NextConc ==
    \/ \E p \in Procs, i \in ConcChats :
        /\ Begun < MaxChats
        /\ ChatBegin(p, i[1], "{}", i[2])
    \/ \E p \in Procs, tipsOk \in BOOLEAN, hasMemory \in BOOLEAN : ChatResolve(p, tipsOk, hasMemory)
    \/ \E p \in Procs : ChatFinish(p)

SpecConc == Init /\ [][NextConc]_vars

\* C10: the conversation log is append-only (every step keeps the entries
\* it had, unmodified and in place) and its entry ids are unique and
\* increase in log order, under any interleaving of concurrent chat calls
LogAppendOnly ==
    [][ /\ Len(conversations') >= Len(LoadedConversations)
        /\ SubSeq(conversations', 1, Len(LoadedConversations)) = LoadedConversations
        /\ \A i, j \in 1..Len(conversations') :
                i < j => conversations'[i].id < conversations'[j].id
        /\ Len(storage'.conversations) >= Len(storage.conversations)
        /\ SubSeq(storage'.conversations, 1, Len(storage.conversations)) = storage.conversations
      ]_vars

\* C10 witness: a call that began on an empty log appended the second
\* entry: another call's append came in while it was suspended
AppendedBehindAnotherCall ==
    /\ last.op = "chat" /\ Has(last, "seen") /\ last.seen = 0
    /\ Len(conversations) = 2
    /\ \A p \in Procs : calls[p] = Idle

\* ------------------------------------------------------------ intent resolution
\* the single words the rules of the fallback tier test for
Keywords ==
    { "create", "add", "list", "show", "display", "complete", "done", "finish",
      "delete", "remove", "update", "change", "edit", "schedule",
      "analyze", "analyse", "report", "stats", "insights", "suggest", "recommend" }

Vocabulary == Keywords \cup {"hello", "task", "3", "high"}

\* the example phrases of the help text and of the prompt
CanonicalPhrases ==
    { <<"Create", "a", "task", "to", "buy", "milk", "tomorrow">>,
      <<"Show", "my", "pending", "tasks">>,
      <<"Mark", "task", "1", "as", "completed">>,
      <<"Update", "task", "2", "to", "high", "priority">>,
      <<"Create", "a", "task", "to", "buy", "milk">>,
      <<"Show", "pending", "tasks">>,
      <<"Complete", "task", "3">>,
      <<"Complete", "task", "3", "before", "4">> }

\* messages that match a rule by one of its phrases only
PhraseMessages ==
    { <<"new", "task">>,
      <<"mark", "as", "completed", "2">>,
      <<"what", "should", "i", "work", "on">>,
      <<"what", "should", "i", "delete">> }

\* the chat messages resolved: every message of up to MaxWords words
ResolverMessages ==
    UNION {[1..k -> Vocabulary] : k \in 0..MaxWords} \cup CanonicalPhrases \cup PhraseMessages

\* what env.AI.run and the parse of its text can come to: a rejection (an
\* error, a timeout), a text with no {...} span (empty text included), a
\* span JSON.parse throws on, or a parsed object
AIOutcomes ==
    { AIError,
      [kind |-> "text"],
      [kind |-> "bad_json"],
      [kind |-> "json", value |-> [parameters |-> NoParams]],
      [kind |-> "json", value |-> [type |-> "list_tasks"]],
      [kind |-> "json", value |-> [type |-> "", parameters |-> NoParams]],
      AIJson("list_tasks", [status |-> "completed"]),
      AIJson("frobnicate", NoParams),
      AIJson("create_task", NoParams),
      AIJson("delete_task", NoParams),
      AIJson("create_task", NullParams) }

\* an instance with nothing stored whose first chat call is suspended at
\* env.AI.run in analyzeIntent
InitIntent ==
    /\ initialized = TRUE
    /\ tasks = <<>>
    /\ conversations = <<>>
    /\ nextTaskId = 1
    /\ storage = [tasks |-> <<>>, conversations |-> <<>>, nextTaskId |-> 0]
    /\ now = 0
    /\ assigned = <<>>
    /\ born = 0
    /\ last = [op |-> "none"]
    /\ \E message \in ResolverMessages, ai \in AIOutcomes :
        calls = [p \in Procs |->
                    IF p = 1 THEN [pc |-> "intent", message |-> message, context |-> "{}",
                                   ai |-> ai, seen |-> 0]
                    ELSE Idle]

NextIntent ==
    \/ \E tipsOk \in BOOLEAN, hasMemory \in BOOLEAN : ChatResolve(1, tipsOk, hasMemory)
    \/ ChatFinish(1)

SpecIntent == InitIntent /\ [][NextIntent]_vars

\* the call in slot p gets its intent in this step
Resolves(p) == calls[p].pc = "intent" /\ calls'[p].pc # "intent"

\* the intent it got
ResolvedIntent(p) == IF calls'[p] = Idle THEN last'.intent ELSE calls'[p].intent

\* the capability gave nothing to classify with: it failed, or its text has
\* no JSON object with a type and a parameters field
CapabilityUnusable(ai) ==
    \/ ai.kind \in {"error", "text", "bad_json"}
    \/ /\ ai.kind = "json"
       /\ \/ "type" \notin DOMAIN ai.value
          \/ "parameters" \notin DOMAIN ai.value
          \/ ai.value.type = ""

\* the phrases the rules of the fallback tier test for
KeyPhrases ==
    { <<"new", "task">>, <<"mark", "as", "completed">>, <<"what", "should", "i", "work">> }

\* no rule of the fallback tier has a keyword or phrase in the message
NoRuleWord(message) ==
    LET text == toLowerCase(message)
    IN  /\ \A i \in 1..Len(text) : text[i] \notin Keywords
        /\ \A ph \in KeyPhrases : ~HasPhrase(text, ph)

\* C11: the resolver returns an intent (a type and parameters) for every
\* message and every behaviour of the capability, and returns
\* {type: general, parameters: {}} when neither tier classifies the message
ResolverNeverFails ==
    [][ \A p \in Procs :
            Resolves(p) =>
                /\ DOMAIN ResolvedIntent(p) = {"type", "parameters"}
                /\ (CapabilityUnusable(calls[p].ai) /\ NoRuleWord(calls[p].message))
                    => ResolvedIntent(p) = [type |-> "general", parameters |-> NoParams]
      ]_vars

\* C11 witness: a message with no keyword was resolved to general and
\* answered with the help text
ResolvedToGeneral ==
    /\ last.op = "chat" /\ last.intent = [type |-> "general", parameters |-> NoParams]
    /\ Len(conversations) = 1
    /\ conversations[1].user_message = <<"hello", "task">>
    /\ last.response.kind = "help"

\* the nine intent types
IntentTypes ==
    { "create_task", "list_tasks", "update_task", "complete_task", "delete_task",
      "schedule_tasks", "analyze_productivity", "get_suggestions", "general" }

\* C12: a result of the model tier is accepted only when its type is one
\* of the nine intent types and it has a parameters field, otherwise the
\* fallback tier decides; so every intent the resolver returns has one of
\* the nine types
ResolvedTypeRecognized ==
    [][ \A p \in Procs : Resolves(p) => ResolvedIntent(p).type \in IntentTypes ]_vars

\* the reply of the call in slot p, once its intent is resolved
ResolvedReply(p) == IF calls'[p] = Idle THEN last'.response ELSE calls'[p].response

\* C13: when the model tier fails (the capability rejects, its text holds
\* no JSON, the JSON does not parse or lacks type or parameters) the
\* fallback tier decides, with the result the message has when the model
\* tier is disabled, and the caller sees no error
FailureFallsThrough ==
    [][ \A p \in Procs :
            (Resolves(p) /\ CapabilityUnusable(calls[p].ai)) =>
                /\ ResolvedIntent(p) = heuristicIntent(calls[p].message)
                /\ ResolvedReply(p) # ErrorReply
      ]_vars

\* C13 witness: "Show my pending tasks" got the intent of the fallback
\* rules (no answer of the capability asks for the pending tasks)
FallbackDecided ==
    /\ last.op = "chat" /\ Len(conversations) = 1
    /\ conversations[1].user_message = <<"Show", "my", "pending", "tasks">>
    /\ last.intent = [type |-> "list_tasks", parameters |-> [status |-> "pending"]]
    /\ last.response.kind = "no_match"

\* the rules of the fallback tier in their order, general excluded
RuleOrder ==
    << "create_task", "list_tasks", "complete_task", "delete_task", "update_task",
       "schedule_tasks", "analyze_productivity", "get_suggestions" >>

\* the words and the phrases of each rule
RuleWords ==
    << {"create", "add"}, {"list", "show", "display"}, {"complete", "done", "finish"},
       {"delete", "remove"}, {"update", "change", "edit"}, {"schedule"},
       {"analyze", "analyse", "report", "stats", "insights"}, {"suggest", "recommend"} >>

RulePhrases ==
    << {<<"new", "task">>}, {}, {<<"mark", "as", "completed">>}, {}, {}, {}, {},
       {<<"what", "should", "i", "work">>} >>

\* rule k has a word or a phrase in the text
RuleMatches(k, text) ==
    \/ \E i \in 1..Len(text) : text[i] \in RuleWords[k]
    \/ \E ph \in RulePhrases[k] : HasPhrase(text, ph)

\* the type of the first rule in the order that matches, general for none
FirstMatch(message) ==
    LET text == toLowerCase(message)
        M == {k \in 1..Len(RuleOrder) : RuleMatches(k, text)}
    IN  IF M = {} THEN "general"
        ELSE RuleOrder[CHOOSE k \in M : \A j \in M : k <= j]

\* C14: the fallback tier applies its rules in the order create > list >
\* complete > delete > update > schedule > analyze > suggest > general and
\* the first match wins, wherever the keywords stand in the message
FirstRuleWins ==
    [][ \A p \in Procs :
            (Resolves(p) /\ CapabilityUnusable(calls[p].ai)) =>
                ResolvedIntent(p).type = FirstMatch(calls[p].message)
      ]_vars

\* C14 witness: "delete list", with a keyword of the delete rule before one
\* of the list rule, was resolved by the fallback tier to list_tasks
EarlierRuleWon ==
    /\ last.op = "chat" /\ Len(conversations) = 1
    /\ conversations[1].user_message = <<"delete", "list">>
    /\ last.intent = [type |-> "list_tasks", parameters |-> NoParams]

\* the example phrases of the help text and the intent type each is meant for
IntendedType(message) ==
    CASE message = <<"Create", "a", "task", "to", "buy", "milk", "tomorrow">> -> "create_task"
      [] message = <<"Show", "my", "pending", "tasks">> -> "list_tasks"
      [] message = <<"Mark", "task", "1", "as", "completed">> -> "complete_task"
      [] message = <<"Update", "task", "2", "to", "high", "priority">> -> "update_task"
      [] OTHER -> "any"

\* C15: with the model tier unavailable, each example phrase of the help
\* text ("Create a task to buy milk tomorrow", "Show my pending tasks",
\* "Mark task 1 as completed", "Update task 2 to high priority") resolves
\* to the intent type it is meant for, never to general
ExamplePhrasesResolve ==
    [][ \A p \in Procs :
            ( /\ Resolves(p)
              /\ calls[p].ai = AIError
              /\ IntendedType(calls[p].message) # "any" )
            => ResolvedIntent(p).type = IntendedType(calls[p].message)
      ]_vars

\* the intent the resolver is to give to each worked example
ExampleIntent(message) ==
    CASE message = <<"Create", "a", "task", "to", "buy", "milk">> ->
            [type |-> "create_task", parameters |-> [title |-> <<"buy", "milk">>]]
      [] message = <<"Complete", "task", "3">> ->
            [type |-> "complete_task", parameters |-> [task_id |-> 3]]
      [] message = <<"Complete", "task", "3", "before", "4">> ->
            [type |-> "complete_task", parameters |-> [task_id |-> 3]]
      [] OTHER -> [type |-> "any"]

\* C16: with the model tier unavailable, "Create a task to buy milk"
\* resolves to create_task with title "buy milk", and "Complete task 3" to
\* complete_task with task_id 3, the first standalone integer of the message
WorkedExamplesResolve ==
    [][ \A p \in Procs :
            ( /\ Resolves(p)
              /\ calls[p].ai = AIError
              /\ ExampleIntent(calls[p].message).type # "any" )
            => ResolvedIntent(p) = ExampleIntent(calls[p].message)
      ]_vars

\* C16 witness: "Complete task 3 before 4" was resolved to complete_task
\* for task 3, which the empty store does not hold
CompleteThreeResolved ==
    /\ last.op = "chat" /\ Len(conversations) = 1
    /\ conversations[1].user_message = <<"Complete", "task", "3", "before", "4">>
    /\ last.intent = [type |-> "complete_task", parameters |-> [task_id |-> 3]]
    /\ last.response.kind = "not_found"

\* the intent has no value for the parameter its handler requires
LacksRequired(intent) ==
    \/ /\ intent.type = "create_task"
       /\ FalsyText(GetText(intent.parameters, "title"))
    \/ /\ intent.type \in {"update_task", "complete_task", "delete_task"}
       /\ "task_id" \notin DOMAIN intent.parameters

\* C17: when the resolved intent lacks its required parameter (create_task
\* without a title; update_task, complete_task or delete_task without a
\* task_id) the reply is the prompt asking for that field, not an error,
\* and the task collection and the identifier counter stay as they were
MissingFieldPrompted ==
    [][ \A p \in Procs :
            (Resolves(p) /\ LacksRequired(ResolvedIntent(p))) =>
                /\ ResolvedReply(p).kind =
                        (IF ResolvedIntent(p).type = "create_task" THEN "need_title" ELSE "need_id")
                /\ tasks' = tasks
                /\ nextTaskId' = nextTaskId
      ]_vars

\* C18: the generic error reply is given only when a persistence write
\* failed; in SpecIntent every write succeeds, so whatever the capability
\* answers (an accepted intent with unusable parameters included) and
\* whatever parameter is missing, no call is answered with it
NoErrorReplyWhileWritesSucceed ==
    \A i \in 1..Len(conversations) : conversations[i].agent_response # ErrorReply

\* ------------------------------------------------------------ concurrent creates
\* chat calls that create a task, by the fallback tier and by the model
\* tier, and one that does not
CreateChats ==
    { << <<"Create", "a", "task", "to", "buy", "milk">>, AIError >>,
      << <<"Hello">>, AIJson("create_task", [title |-> <<"x">>, priority |-> "high"]) >>,
      << <<"Hello">>, AIError >> }

\* POST /tasks and DELETE /tasks/:id run between the steps of the chat
\* calls: fetch() awaits only the request body and storage on these routes
NextCreates ==
    \/ \E p \in Procs, i \in CreateChats :
        /\ Begun < MaxChats
        /\ ChatBegin(p, i[1], "{}", i[2])
    \/ \E p \in Procs, tipsOk \in {TRUE}, hasMemory \in BOOLEAN :
        /\ nextTaskId <= MaxId
        /\ ChatResolve(p, tipsOk, hasMemory)
    \/ \E p \in Procs : ChatFinish(p)
    \/ \E data \in CreateBodies : LoadedNextTaskId <= MaxId /\ RestCreate(data)
    \/ \E id \in 1..MaxId : RestDelete(id)

SpecCreates == Init /\ [][NextCreates]_vars

\* C19: under any interleaving of concurrent creates (chat and REST) no
\* two creates get the same identifier, and each create's counter
\* increment and record insertion take effect together, in one step with
\* nothing in between: the counter moves exactly when a record with the
\* old counter value as id is put at the front
CreatesAreAtomic ==
    [][ LET N == LoadedNextTaskId
            T == LoadedTasks
        IN  /\ nextTaskId' \in {N, N + 1}
            /\ (nextTaskId' = N + 1) <=> (Len(tasks') = Len(T) + 1)
            /\ (nextTaskId' = N + 1) =>
                    /\ tasks'[1].id = N
                    /\ Tail(tasks') = T
                    /\ assigned' = Append(assigned, N)
            /\ \A i, j \in 1..Len(assigned') : i # j => assigned'[i] # assigned'[j]
      ]_vars

\* ------------------------------------------------------------ write-back
\* the three keys #persist writes
StorageKeys == {"tasks", "conversations", "nextTaskId"}

\* which of the three puts of one #persist succeed: Promise.all starts the
\* three independently and rejects when any of them rejects
PutOutcomes == [StorageKeys -> BOOLEAN]

AllPut(ok) == \A k \in StorageKeys : ok[k]

\* #persist: storage after the three puts, each key written only if its put
\* succeeded
persist(T, C, N, ok) ==
    [ tasks         |-> IF ok["tasks"] THEN T ELSE storage.tasks,
      conversations |-> IF ok["conversations"] THEN C ELSE storage.conversations,
      nextTaskId    |-> IF ok["nextTaskId"] THEN N ELSE storage.nextTaskId ]

\* bodies of POST /tasks in SpecPersist
PersistCreateBodies ==
    { [title |-> <<"a">>],
      NullBody }

\* bodies of PUT /tasks/:id in SpecPersist
PersistUpdateBodies ==
    { [priority |-> "high"],
      [id |-> 2] }

\* POST /tasks; a rejected #persist is caught by fetch and answered 500, the
\* fields keep what #createTaskDirect did to them
PersistCreate(data, ok) ==
    /\ initialized' = TRUE
    /\ conversations' = LoadedConversations
    /\ IF IsNull(data)
       THEN /\ nextTaskId' = LoadedNextTaskId + 1
            /\ tasks' = LoadedTasks
            /\ last' = [op |-> "rest_create", status |-> 500]
            /\ UNCHANGED <<storage, assigned, born>>
       ELSE LET r == createTaskDirect(LoadedTasks, LoadedNextTaskId, data, now, born + 1)
            IN  /\ tasks' = r.tasks
                /\ nextTaskId' = r.nextTaskId
                /\ storage' = persist(r.tasks, LoadedConversations, r.nextTaskId, ok)
                /\ assigned' = Append(assigned, r.task.id)
                /\ born' = born + 1
                /\ last' = IF AllPut(ok)
                           THEN [op |-> "rest_create", status |-> 201, id |-> r.task.id]
                           ELSE [op |-> "rest_create", status |-> 500]
    /\ UNCHANGED <<now, calls>>

\* PUT /tasks/:id
PersistUpdate(id, data, ok) ==
    LET r == updateTaskDirect(LoadedTasks, id, data, now)
    IN  /\ initialized' = TRUE
        /\ tasks' = r.tasks
        /\ conversations' = LoadedConversations
        /\ nextTaskId' = LoadedNextTaskId
        /\ storage' = IF r.ok THEN persist(r.tasks, LoadedConversations, LoadedNextTaskId, ok)
                      ELSE storage
        /\ last' = IF ~r.ok THEN [op |-> "rest_update", status |-> 404]
                   ELSE IF AllPut(ok) THEN [op |-> "rest_update", status |-> 200, data |-> data]
                   ELSE [op |-> "rest_update", status |-> 500]
        /\ UNCHANGED <<now, assigned, born, calls>>

\* DELETE /tasks/:id
PersistDelete(id, ok) ==
    LET idx == FindIndex(LoadedTasks, id)
    IN  /\ initialized' = TRUE
        /\ conversations' = LoadedConversations
        /\ nextTaskId' = LoadedNextTaskId
        /\ tasks' = IF idx = 0 THEN LoadedTasks ELSE Splice(LoadedTasks, idx)
        /\ storage' = IF idx = 0 THEN storage
                      ELSE persist(Splice(LoadedTasks, idx), LoadedConversations, LoadedNextTaskId, ok)
        /\ last' = IF idx = 0 THEN [op |-> "rest_delete", status |-> 404]
                   ELSE IF AllPut(ok) THEN [op |-> "rest_delete", status |-> 200]
                   ELSE [op |-> "rest_delete", status |-> 500]
        /\ UNCHANGED <<now, assigned, born, calls>>

\* the instance is evicted and constructed again: the fields are gone,
\* storage stays, the next call runs #ensureInitialized
Reconstruct ==
    /\ initialized
    /\ initialized' = FALSE
    /\ tasks' = <<>>
    /\ conversations' = <<>>
    /\ nextTaskId' = 0
    /\ last' = [op |-> "constructor"]
    /\ UNCHANGED <<storage, now, assigned, born, calls>>

NextPersist ==
    \/ \E data \in PersistCreateBodies, ok \in PutOutcomes :
        /\ LoadedNextTaskId <= MaxId
        /\ Len(assigned) < MaxId
        /\ PersistCreate(data, ok)
    \/ \E id \in 1..MaxId, data \in PersistUpdateBodies, ok \in PutOutcomes : PersistUpdate(id, data, ok)
    \/ \E id \in 1..MaxId, ok \in PutOutcomes : PersistDelete(id, ok)
    \/ Reconstruct

SpecPersist == Init /\ [][NextPersist]_vars

\* C20: in every persisted state, after a write-back in which only some of
\* the three puts succeeded included, the persisted counter (1 when the
\* key is absent) is greater than the id of every persisted task, so a
\* re-initialised instance hands out no id a persisted task holds
PersistedCounterAboveIds ==
    \A i \in 1..Len(storage.tasks) :
        storage.tasks[i].id < (IF storage.nextTaskId = 0 THEN 1 ELSE storage.nextTaskId)

\* ------------------------------------------------------------ order of the log
\* concurrent chat calls in which the call received first carries the
\* context "voice" and every later one the default context
NextOrder ==
    \/ \E p \in Procs, i \in ConcChats :
        /\ Begun < MaxChats
        /\ ChatBegin(p, i[1], IF Begun = 0 THEN "voice" ELSE "{}", i[2])
    \/ \E p \in Procs, tipsOk \in BOOLEAN, hasMemory \in BOOLEAN : ChatResolve(p, tipsOk, hasMemory)
    \/ \E p \in Procs : ChatFinish(p)

SpecOrder == Init /\ [][NextOrder]_vars

\* the calls whose processing completes in this step
Completing == {p \in Procs : calls[p] # Idle /\ calls'[p] = Idle}

\* C21: with several chat calls running on one instance, the log grows
\* only when a call's processing completes, by exactly that call's entry
\* put behind all entries already there (so entries stand in completion
\* order, not in the order the calls were received), and no entry is lost
\* or overwritten
EntriesInCompletionOrder ==
    [][ /\ Cardinality(Completing) <= 1
        /\ Completing = {} => conversations' = LoadedConversations
        /\ \A p \in Completing :
            /\ Len(conversations') = Len(conversations) + 1
            /\ SubSeq(conversations', 1, Len(conversations)) = conversations
            /\ conversations'[Len(conversations')].user_message = calls[p].message
            /\ conversations'[Len(conversations')].context = calls[p].context
            /\ conversations'[Len(conversations')].agent_response = last'.response
      ]_vars

\* C21 witness: the call received first (context "voice") completed
\* second and its entry stands behind the entry of the call received later
LaterCallLoggedFirst ==
    /\ Len(conversations) = 2
    /\ conversations[1].context = "{}"
    /\ conversations[2].context = "voice"
    /\ \A p \in Procs : calls[p] = Idle

\* ------------------------------------------------------------ completing twice
\* SpecTurns: chat calls in a row on one instance
MaxTurns == 4

\* creates, completions resolved by either tier, for an id that exists and
\* one that may not, and calls that leave the tasks alone
TurnInputs ==
    { << <<"Create", "a", "task", "to", "buy", "milk">>, AIError >>,
      << <<"Complete", "task", "1">>, AIError >>,
      << <<"Hello">>, AIJson("complete_task", [task_id |-> 1]) >>,
      << <<"Complete", "task", "2">>, AIError >>,
      << <<"Show", "my", "pending", "tasks">>, AIError >>,
      << <<"Analyze", "my", "productivity">>, AIError >> }

NextTurns ==
    \/ \E i \in TurnInputs :
        /\ Len(LoadedConversations) < MaxTurns
        /\ ChatOutcome(i[1], i[2], TRUE).nextTaskId <= MaxId + 1
        /\ Chat(i[1], "{}", i[2], TRUE)
    \/ Tick

SpecTurns == Init /\ [][NextTurns]_vars

\* C22: a chat call resolved to complete_task for the id of an existing
\* task answers with the success confirmation and leaves that task
\* "completed"; when the call before it was such a completion of the same
\* id, the task was "completed" already and the second call answers and
\* leaves it just the same
CompleteTwiceSucceeds ==
    [][ ( /\ last'.op = "chat"
          /\ last'.intent.type = "complete_task"
          /\ Has(last'.intent.parameters, "task_id")
          /\ FindIndex(LoadedTasks, last'.intent.parameters.task_id) # 0 )
        => LET id == last'.intent.parameters.task_id
               idx == FindIndex(LoadedTasks, id)
           IN  /\ last'.response = [kind |-> "completed", task_id |-> id]
               /\ Len(tasks') = Len(LoadedTasks)
               /\ tasks'[idx].id = id
               /\ tasks'[idx].status = "completed"
               /\ ( /\ last.op = "chat"
                    /\ last.intent.type = "complete_task"
                    /\ last.response = [kind |-> "completed", task_id |-> id] )
                  => LoadedTasks[idx].status = "completed"
      ]_vars

\* C22 witness: the last two calls both completed task 1 and both were
\* confirmed
CompletedTwiceInARow ==
    /\ Len(conversations) >= 3
    /\ conversations[Len(conversations)].agent_response = [kind |-> "completed", task_id |-> 1]
    /\ conversations[Len(conversations) - 1].agent_response = [kind |-> "completed", task_id |-> 1]
    /\ \E i \in 1..Len(tasks) : tasks[i].id = 1 /\ tasks[i].status = "completed"

\* ------------------------------------------------------------ create, then list
\* SpecNewest: tasks in the store before the first call
MaxStored == 11

\* stored tasks, pending or completed
NewestShapes ==
    { [priority |-> "medium", status |-> "pending", due_date |-> NoDue],
      [priority |-> "medium", status |-> "completed", due_date |-> NoDue] }

\* a freshly constructed instance over a store of up to MaxStored tasks
InitNewest ==
    /\ initialized = FALSE
    /\ tasks = <<>>
    /\ conversations = <<>>
    /\ nextTaskId = 0
    /\ \E n \in 0..MaxStored : \E shape \in [1..n -> NewestShapes] : storage = StoreOf(n, shape)
    /\ now = 0
    /\ assigned = <<>>
    /\ born = Len(storage.tasks)
    /\ last = [op |-> "none"]
    /\ calls = [p \in Procs |-> Idle]

\* creates and listings of the pending tasks, resolved by either tier
NewestChats ==
    { << <<"Create", "a", "task", "to", "buy", "milk">>, AIError >>,
      << <<"Hello">>, AIJson("create_task", [title |-> <<"x">>, priority |-> "high"]) >>,
      << <<"Show", "my", "pending", "tasks">>, AIError >>,
      << <<"Hello">>, AIJson("list_tasks", [status |-> "pending"]) >> }

NextNewest ==
    \E i \in NewestChats :
        /\ Len(LoadedConversations) < MaxChats
        /\ Chat(i[1], "{}", i[2], TRUE)

SpecNewest == InitNewest /\ [][NextNewest]_vars

\* C23: when a chat call has created a task (title T, id N) and the next
\* chat call lists the pending tasks with the default limit, the listing
\* shows a task with title T and id N, whatever the store held before
NewestTaskListed ==
    [][ ( /\ last'.op = "chat"
          /\ last'.intent = [type |-> "list_tasks", parameters |-> [status |-> "pending"]]
          /\ last.op = "chat"
          /\ last.response.kind = "created" )
        => /\ last'.response.kind = "list"
           /\ \E k \in 1..Len(last'.response.items) :
                /\ last'.response.items[k].id = last.response.id
                /\ last'.response.items[k].title = last.response.title
      ]_vars

\* C23 witness: the store held eleven pending tasks, a twelfth was created
\* and the listing of ten begins with it
NewestOfTwelveListed ==
    /\ last.op = "chat" /\ last.intent.type = "list_tasks"
    /\ Len(conversations) = 2 /\ conversations[1].agent_response.kind = "created"
    /\ Len(tasks) = 12 /\ \A i \in 1..12 : tasks[i].status = "pending"
    /\ last.response.kind = "list" /\ Len(last.response.items) = 10
    /\ last.response.items[1].id = 12
    /\ last.response.items[1].title = <<"buy", "milk">>

\* ------------------------------------------------------------ workflows
\* clock ticks in a day: 1000 * 60 * 60 * 24 ms, at half-day grain
Day == 2

\* the time at which the workflows run
FlowNow == 4 * Day

\* SpecFlow: tasks in the agent's tables before a workflow runs
MaxFlowTasks == 2

\* due dates around FlowNow: none, two days ago, half a day ago, now, and
\* half a day to three and a half days ahead
FlowDues == {NoDue, FlowNow - 4, FlowNow - 1, FlowNow, FlowNow + 1, FlowNow + 2,
             FlowNow + 3, FlowNow + 6, FlowNow + 7}

\* what the tasks differ in: created four days or one day ago
FlowShapes == [status : {"pending", "completed"}, due_date : FlowDues, created_at : {0, FlowNow - Day}]

\* the agent's tables with n tasks
FlowStore(n, shape) ==
    [ tasks |-> [i \in 1..n |->
                    NewTask(n - i + 1,
                            [title |-> TitleOf(n - i + 1), status |-> shape[i].status,
                             due_date |-> shape[i].due_date],
                            shape[i].created_at, n - i + 1)],
      conversations |-> <<>>,
      nextTaskId |-> IF n = 0 THEN 0 ELSE n + 1 ]

\* Math.ceil(a / d) for d > 0; -0 is 0
Ceil(a, d) == -((-a) \div d)

\* DATE(t): the day a time falls on
DateOf(t) == t \div Day

\* what a workflow routine did: the row it inserted into conversations, if any
Inserted(user_message, response, type) ==
    [inserted |-> TRUE, user_message |-> user_message, agent_response |-> response, context |-> type]
NothingInserted == [inserted |-> FALSE]

\* sendDailyReminder: tasks due today or pending, at most 10
sendDailyReminder(T, clock) ==
    LET sel == SliceTo(SelectSeq(T, LAMBDA t :
                    (t.due_date # NoDue /\ DateOf(t.due_date) = DateOf(clock)) \/ t.status = "pending"), 10)
    IN  IF Len(sel) = 0 THEN NothingInserted
        ELSE Inserted(<<"Daily", "reminder">>,
                      [kind |-> "daily_reminder", titles |-> [i \in 1..Len(sel) |-> sel[i].title]],
                      "daily_reminder")

\* generateProductivityReport: tasks created or updated in the last 7 days
generateProductivityReport(T, clock) ==
    LET sel == SelectSeq(T, LAMBDA t : t.created_at >= clock - 7 * Day \/ t.updated_at >= clock - 7 * Day)
        done == Len(SelectSeq(sel, LAMBDA t : t.status = "completed"))
    IN  Inserted(<<"Weekly", "report">>,
                 [kind |-> "productivity_report", total |-> Len(sel), completed |-> done],
                 "productivity_report")

\* autoScheduleTasks: pending tasks without a due date or due later than now
autoScheduleTasks(T, clock) ==
    LET sel == SelectSeq(T, LAMBDA t : t.status = "pending" /\ (t.due_date = NoDue \/ t.due_date > clock))
    IN  IF Len(sel) = 0 THEN NothingInserted
        ELSE Inserted(<<"Auto-scheduling">>,
                      [kind |-> "auto_schedule", titles |-> [i \in 1..Len(sel) |-> sel[i].title]],
                      "auto_schedule")

\* the line reviewTaskPriorities prints for a task's due date
DueBucket(due_date, clock) ==
    IF due_date = NoDue THEN "set_due_date"
    ELSE LET daysUntilDue == Ceil(due_date - clock, Day)
         IN  IF daysUntilDue < 0 THEN "overdue"
             ELSE IF daysUntilDue <= 1 THEN "due_tomorrow"
             ELSE IF daysUntilDue <= 3 THEN "due_soon"
             ELSE "none"

\* reviewTaskPriorities: pending tasks created more than 3 days ago
reviewTaskPriorities(T, clock) ==
    LET sel == SelectSeq(T, LAMBDA t : t.status = "pending" /\ t.created_at < clock - 3 * Day)
    IN  IF Len(sel) = 0 THEN NothingInserted
        ELSE Inserted(<<"Priority", "review">>,
                      [kind |-> "priority_review",
                       items |-> [i \in 1..Len(sel) |->
                                    [id |-> sel[i].id, due_date |-> sel[i].due_date,
                                     bucket |-> DueBucket(sel[i].due_date, clock)]]],
                      "priority_review")

WorkflowTypes == {"daily_reminder", "productivity_report", "auto_schedule", "priority_review"}

\* TaskWorkflow.run: the switch over event.type; it returns nothing
run(type, T, clock) ==
    CASE type = "daily_reminder" -> sendDailyReminder(T, clock)
      [] type = "productivity_report" -> generateProductivityReport(T, clock)
      [] type = "auto_schedule" -> autoScheduleTasks(T, clock)
      [] type = "priority_review" -> reviewTaskPriorities(T, clock)
      [] OTHER -> NothingInserted

\* handleWorkflowsAPI: POST /workflows/<type>. The routine works on the
\* agent's tables through agent.sql; when that call throws (sqlOk false) the
\* routine's own catch swallows it. The body answered is { message, result }
\* with result = what run returned, which is undefined, so the key is absent
WorkflowTrigger(type, sqlOk) ==
    LET r == IF sqlOk THEN run(type, storage.tasks, now) ELSE NothingInserted
        C == storage.conversations
    IN  /\ storage' = IF r.inserted
                      THEN [storage EXCEPT !.conversations =
                                Append(C, [id |-> Len(C) + 1, user_message |-> r.user_message,
                                           agent_response |-> r.agent_response,
                                           created_at |-> now, context |-> r.context])]
                      ELSE storage
        /\ last' = [op |-> "workflow", type |-> type, status |-> 200,
                    body |-> [message |-> type]]
        /\ UNCHANGED <<initialized, tasks, conversations, nextTaskId, now, assigned, born, calls>>

\* the agent's tables hold up to MaxFlowTasks tasks
InitFlow ==
    /\ initialized = FALSE
    /\ tasks = <<>>
    /\ conversations = <<>>
    /\ nextTaskId = 0
    /\ \E n \in 0..MaxFlowTasks : \E shape \in [1..n -> FlowShapes] : storage = FlowStore(n, shape)
    /\ now = FlowNow
    /\ assigned = <<>>
    /\ born = Len(storage.tasks)
    /\ last = [op |-> "none"]
    /\ calls = [p \in Procs |-> Idle]

NextFlow ==
    \E type \in WorkflowTypes, sqlOk \in BOOLEAN :
        /\ Len(storage.conversations) < MaxChats
        /\ WorkflowTrigger(type, sqlOk)

SpecFlow == InitFlow /\ [][NextFlow]_vars

\* C24: each workflow trigger appends exactly one entry to the agent's
\* conversation log and answers with a status object, for every task set,
\* the empty one included
TriggerAppendsOneEntry ==
    [][ last'.op = "workflow" =>
            /\ Len(storage'.conversations) = Len(storage.conversations) + 1
            /\ Has(last'.body, "result")
      ]_vars

\* ------------------------------------------------------------ productivity tiers
\* SpecRate: tasks in the store when the analysis is asked for
MaxRateTasks == 44

\* a store of n tasks of which the c oldest are completed
RateStore(n, c) ==
    StoreOf(n, [i \in 1..n |->
                    [priority |-> "medium",
                     status |-> IF i > n - c THEN "completed" ELSE "pending",
                     due_date |-> NoDue]])

InitRate ==
    /\ initialized = FALSE
    /\ tasks = <<>>
    /\ conversations = <<>>
    /\ nextTaskId = 0
    /\ \E n \in 0..MaxRateTasks : \E c \in 0..n : storage = RateStore(n, c)
    /\ now = 0
    /\ assigned = <<>>
    /\ born = Len(storage.tasks)
    /\ last = [op |-> "none"]
    /\ calls = [p \in Procs |-> Idle]

RateChats ==
    { << <<"Analyze", "my", "productivity">>, AIError >>,
      << <<"Hello">>, AIJson("analyze_productivity", NoParams) >> }

NextRate ==
    \E i \in RateChats :
        /\ Len(LoadedConversations) < MaxConv
        /\ Chat(i[1], "{}", i[2], TRUE)

SpecRate == InitRate /\ [][NextRate]_vars

\* tasks of the store, and those of them that are completed
Total == Len(tasks)
Completed == Cardinality({i \in 1..Len(tasks) : tasks[i].status = "completed"})

Analysed == last.op = "chat" /\ last.response.kind = "analysis"

\* C25: the analysis picks its tier from completed/total: celebratory
\* from 80%, positive from 60% and below 80%, encouraging below 60% and
\* for an empty store; a rate strictly below 80% is never celebratory
TierFromExactRate ==
    Analysed =>
        last.response.tier =
            IF Total > 0 /\ 100 * Completed >= 80 * Total THEN "excellent"
            ELSE IF Total > 0 /\ 100 * Completed >= 60 * Total THEN "good"
            ELSE "you_can_do_it"

\* C25 as amended: the tier is picked from the rate rounded to the
\* nearest whole percent (halves up), which is the percentage the analysis
\* prints: celebratory when completed/total is at least 79.5%, positive
\* when it is at least 59.5% and below 79.5%, encouraging below that and
\* for an empty store
TierFromRoundedRate ==
    Analysed =>
        /\ last.response.tier =
            IF Total > 0 /\ 200 * Completed >= 159 * Total THEN "excellent"
            ELSE IF Total > 0 /\ 200 * Completed >= 119 * Total THEN "good"
            ELSE "you_can_do_it"
        /\ (last.response.tier = "excellent") <=> (last.response.rate >= 80)
        /\ (last.response.tier = "you_can_do_it") <=> (last.response.rate < 60)

\* C25 witness: 35 of 44 tasks are completed, 79.5...%, printed as 80% and
\* reported as celebratory
RoundedUpToCelebratory ==
    /\ Analysed
    /\ Total = 44 /\ Completed = 35
    /\ last.response.rate = 80
    /\ last.response.tier = "excellent"

\* C26: the priority review puts every reviewed task whose due date is
\* earlier than now under overdue, one with 0 to 1 days until due under due
\* tomorrow and one with 2 to 3 days until due under due soon; no task
\* whose due date is already past is put under due tomorrow
ReviewBucketsExact ==
    \A k \in 1..Len(storage.conversations) :
        LET e == storage.conversations[k]
        IN  e.context = "priority_review" =>
                \A i \in 1..Len(e.agent_response.items) :
                    LET it == e.agent_response.items[i]
                        days == Ceil(it.due_date - now, Day)
                    IN  it.due_date # NoDue =>
                            /\ it.due_date < now => it.bucket = "overdue"
                            /\ (it.due_date >= now /\ days <= 1) => it.bucket = "due_tomorrow"
                            /\ (days >= 2 /\ days <= 3) => it.bucket = "due_soon"
                            /\ it.bucket = "due_tomorrow" => it.due_date >= now

\* ------------------------------------------------------------ frame of a delete
\* a step takes out one task that carries the id and nothing else: the tasks
\* before it and behind it keep their fields and their order, the counter
\* is as it was, and storage holds the same
RemovedOnly(id) ==
    /\ \E k \in 1..Len(LoadedTasks) :
        /\ LoadedTasks[k].id = id
        /\ Len(tasks') = Len(LoadedTasks) - 1
        /\ \A i \in 1..Len(tasks') : tasks'[i] = IF i < k THEN LoadedTasks[i] ELSE LoadedTasks[i + 1]
    /\ nextTaskId' = LoadedNextTaskId
    /\ storage'.tasks = tasks'
    /\ storage'.nextTaskId = nextTaskId'

\* C27: deleting an id a task carries (DELETE /tasks/:id, chat
\* delete_task) succeeds and removes that task only: every other task is
\* still there with the same fields and in the same order, and the
\* identifier counter is unchanged
DeleteRemovesOnlyThat ==
    [][ /\ \A id \in NamedIds :
            (last'.op = "rest_delete" /\ ~Absent(LoadedTasks, id) /\ RestDelete(id))
                => (last'.status = 200 /\ RemovedOnly(id))
        /\ \A i \in ChatInputs, c \in Contexts :
            LET intent == analyzeIntent(i[1], i[2])
            IN  ( /\ last'.op = "chat"
                  /\ intent.type = "delete_task"
                  /\ NamesTask(intent.parameters)
                  /\ ~Absent(LoadedTasks, ToNumber(intent.parameters.task_id))
                  /\ Chat(i[1], c, i[2], TRUE) )
                => (last'.response.kind = "deleted" /\ RemovedOnly(ToNumber(intent.parameters.task_id)))
      ]_vars

\* C27 witness: of two tasks created, one was deleted and the other is
\* still in the store
DeletedOneOfTwo ==
    /\ last.op \in {"rest_delete", "chat"}
    /\ (last.op = "rest_delete" => last.status = 200)
    /\ (last.op = "chat" => last.response.kind = "deleted")
    /\ Len(assigned) = 2 /\ Len(tasks) = 1

\* ------------------------------------------------------------ calls that only read
\* chat calls whose intent is a listing, a schedule, an analysis,
\* suggestions or general (an unknown type included), resolved by either
\* tier, with usable and with null parameters
QuietChats ==
    { << <<"Show", "my", "pending", "tasks">>, AIError >>,
      << <<"Hello">>, AIJson("list_tasks", [status |-> "completed", limit |-> 10]) >>,
      << <<"Hello">>, AIJson("list_tasks", NullParams) >>,
      << <<"Schedule", "my", "tasks">>, AIError >>,
      << <<"Hello">>, AIJson("schedule_tasks", NullParams) >>,
      << <<"Analyze", "my", "productivity">>, AIError >>,
      << <<"Suggest", "something">>, AIError >>,
      << <<"Hello">>, AIJson("get_suggestions", NullParams) >>,
      << <<"Hello">>, AIError >>,
      << <<"Hello">>, AIJson("frobnicate", NoParams) >> }

NextQuiet ==
    \E i \in QuietChats, tipsOk \in BOOLEAN :
        /\ Len(LoadedConversations) < MaxConv
        /\ Chat(i[1], "{}", i[2], tipsOk)

SpecQuiet == InitSched /\ [][NextQuiet]_vars

\* the intent types whose handlers write to the task store
WritingTypes == {"create_task", "update_task", "complete_task", "delete_task"}

\* C28: a chat call whose intent is list_tasks, schedule_tasks,
\* analyze_productivity, get_suggestions or general leaves the task
\* collection (contents and order) and the identifier counter as they
\* were; all it changes is the log, by the one entry it appends
ReadingCallsChangeOnlyLog ==
    [][ (last'.op = "chat" /\ last'.intent.type \notin WritingTypes) =>
            /\ tasks' = LoadedTasks
            /\ nextTaskId' = LoadedNextTaskId
            /\ assigned' = assigned
            /\ Len(conversations') = Len(LoadedConversations) + 1
            /\ SubSeq(conversations', 1, Len(LoadedConversations)) = LoadedConversations
            /\ storage' = [tasks |-> LoadedTasks, conversations |-> conversations',
                           nextTaskId |-> LoadedNextTaskId]
      ]_vars

\* C28 witness: a schedule was asked for while the store held a low
\* priority task in front of a high priority one; the reply puts the high
\* one first and the store still has them as they were
ScheduledWithoutReordering ==
    /\ last.op = "chat" /\ last.intent.type = "schedule_tasks"
    /\ last.response.kind = "schedule"
    /\ Len(tasks) = 2
    /\ tasks[1].priority = "low" /\ tasks[1].status = "pending"
    /\ tasks[2].priority = "high" /\ tasks[2].status = "pending"
    /\ last.response.items[1].priority = "high"
    /\ Len(conversations) = 1

\* ------------------------------------------------------------ lazy initialisation
\* Two requests on a freshly constructed instance, with #ensureInitialized
\* taken apart at its three awaits. A request is POST /tasks {"title":"a"}
\* ("create": after #ensureInitialized it awaits the request body) or a chat
\* call of "Hello" ("chat": it awaits env.AI.run).
InitKinds == {"create", "chat"}

\* the pcs at which a call waits for this.state.storage.get
StorageWaits == {"get_tasks", "get_conversations", "get_nextTaskId"}

\* mutation of the gate: the reads are made with { allowConcurrency: true },
\* which lets other events in while a read is pending
InputGateOpen_AllowConcurrency == TRUE

\* the input gate of the Durable Object: no other event is delivered to the
\* instance while a storage operation of a running event is pending
InputGateOpen == \A q \in Procs : calls[q].pc \notin StorageWaits

\* calls in flight
InFlight == {q \in Procs : calls[q] # Idle}

\* a request is delivered: fetch()/chat() runs to its first await, which is
\* the get of "tasks" unless the instance is initialized already
Arrive(p, kind) ==
    /\ calls[p] = Idle
    /\ InputGateOpen
    /\ calls' = [calls EXCEPT ![p] =
                    IF initialized
                    THEN [pc |-> "work", kind |-> kind, concurrent |-> InFlight # {}]
                    ELSE [pc |-> "get_tasks", kind |-> kind, concurrent |-> InFlight # {},
                          got |-> storage.tasks]]
    /\ UNCHANGED <<initialized, tasks, conversations, nextTaskId, storage, now, assigned, born, last>>

\* this.tasks = (await get("tasks")) || []
GotTasks(p) ==
    /\ calls[p].pc = "get_tasks"
    /\ tasks' = calls[p].got
    /\ calls' = [calls EXCEPT ![p] = [pc |-> "get_conversations", kind |-> calls[p].kind,
                                      concurrent |-> calls[p].concurrent,
                                      got |-> storage.conversations]]
    /\ UNCHANGED <<initialized, conversations, nextTaskId, storage, now, assigned, born, last>>

\* this.conversations = (await get("conversations")) || []
GotConversations(p) ==
    /\ calls[p].pc = "get_conversations"
    /\ conversations' = calls[p].got
    /\ calls' = [calls EXCEPT ![p] = [pc |-> "get_nextTaskId", kind |-> calls[p].kind,
                                      concurrent |-> calls[p].concurrent,
                                      got |-> storage.nextTaskId]]
    /\ UNCHANGED <<initialized, tasks, nextTaskId, storage, now, assigned, born, last>>

\* this.nextTaskId = (await get("nextTaskId")) || 1; this.initialized = true
GotNextTaskId(p) ==
    /\ calls[p].pc = "get_nextTaskId"
    /\ nextTaskId' = IF calls[p].got = 0 THEN 1 ELSE calls[p].got
    /\ initialized' = TRUE
    /\ calls' = [calls EXCEPT ![p] = [pc |-> "work", kind |-> calls[p].kind,
                                      concurrent |-> calls[p].concurrent]]
    /\ UNCHANGED <<tasks, conversations, storage, now, assigned, born, last>>

\* the request body or the capability's answer is delivered and the call
\* runs to its end: #createTaskDirect and #persist, or the push of chat()
\* and #persist
Work(p) ==
    /\ calls[p].pc = "work"
    /\ InputGateOpen
    /\ calls' = [calls EXCEPT ![p] = Idle]
    /\ IF calls[p].kind = "create"
       THEN LET r == createTaskDirect(tasks, nextTaskId, [title |-> <<"a">>], now, born + 1)
            IN  /\ tasks' = r.tasks
                /\ nextTaskId' = r.nextTaskId
                /\ storage' = Persisted(r.tasks, conversations, r.nextTaskId)
                /\ assigned' = Append(assigned, r.task.id)
                /\ born' = born + 1
                /\ last' = [op |-> "rest_create", status |-> 201, id |-> r.task.id,
                            concurrent |-> calls[p].concurrent]
                /\ UNCHANGED conversations
       ELSE LET C2 == PushEntry(conversations,
                                NewEntry(conversations, <<"Hello">>, [kind |-> "help"], now, "{}"))
            IN  /\ conversations' = C2
                /\ storage' = Persisted(tasks, C2, nextTaskId)
                /\ last' = [op |-> "chat", response |-> [kind |-> "help"],
                            concurrent |-> calls[p].concurrent]
                /\ UNCHANGED <<tasks, nextTaskId, assigned, born>>
    /\ UNCHANGED <<initialized, now>>

\* the instance is constructed over a store left by earlier creates
InitLazy ==
    /\ initialized = FALSE
    /\ tasks = <<>>
    /\ conversations = <<>>
    /\ nextTaskId = 0
    /\ \E n \in 0..MaxId : storage = StoreOf(n, [i \in 1..n |->
                                [priority |-> "medium", status |-> "pending", due_date |-> NoDue]])
    /\ now = 0
    /\ assigned = <<>>
    /\ born = Len(storage.tasks)
    /\ last = [op |-> "none"]
    /\ calls = [p \in Procs |-> Idle]

NextLazy ==
    \/ \E p \in Procs, kind \in InitKinds :
        /\ Len(assigned) + Len(conversations) + Cardinality(InFlight) < MaxChats + 1
        /\ Arrive(p, kind)
    \/ \E p \in Procs : GotTasks(p)
    \/ \E p \in Procs : GotConversations(p)
    \/ \E p \in Procs : GotNextTaskId(p)
    \/ \E p \in Procs : Work(p)

SpecLazy == InitLazy /\ [][NextLazy]_vars

\* C29: with two requests on a freshly constructed instance, lazy
\* initialisation takes effect at most once: once the fields are loaded,
\* no step of an initialisation still in flight puts back what storage held
\* earlier, so every task in memory stays, every id handed out is held by
\* a task, the log keeps its entries and the counter never moves backwards
LazyLoadNeverClobbers ==
    [][ initialized =>
            /\ \A i \in 1..Len(tasks) : \E j \in 1..Len(tasks') : tasks'[j] = tasks[i]
            /\ \A k \in 1..Len(assigned') : \E j \in 1..Len(tasks') : tasks'[j].id = assigned'[k]
            /\ Len(conversations') >= Len(conversations)
            /\ SubSeq(conversations', 1, Len(conversations)) = conversations
            /\ nextTaskId' >= nextTaskId
            /\ initialized'
      ]_vars

\* C29 witness: an instance constructed over a store of one task served two
\* creates, the second delivered while the first was in flight, and holds
\* all three tasks
BothCreatesKept ==
    /\ last.op = "rest_create" /\ last.concurrent
    /\ Len(assigned) = 2
    /\ Len(tasks) = 3
    /\ tasks[1].id = 3 /\ tasks[2].id = 2 /\ tasks[3].id = 1
    /\ storage.tasks = tasks /\ storage.nextTaskId = 4
    /\ InFlight = {}

\* ------------------------------------------------------------ failed writes in a chat call
\* the replies of handlers that have called #persist
PersistingReplies == {"created", "updated", "completed", "deleted"}

WriteChats ==
    { << <<"Create", "a", "task", "to", "buy", "milk">>, AIError >>,
      << <<"Complete", "task", "1">>, AIError >>,
      << <<"Delete", "task", "1">>, AIError >>,
      << <<"Hello">>, AIError >> }

\* chat(message, context) with the puts of the handler's #persist (ok1) and
\* of chat()'s own #persist (ok2) succeeding or not. A rejected #persist in
\* the handler is thrown into processUserMessage's catch, which answers the
\* generic error reply; the fields keep what the handler did to them. A
\* rejected #persist in chat() rejects the call.
ChatWithWrites(message, context, ai, ok1, ok2) ==
    LET C == LoadedConversations
        intent == analyzeIntent(message, ai)
        r == processUserMessage(LoadedTasks, LoadedNextTaskId, intent, now, born + 1, TRUE)
        wrote == r.response.kind \in PersistingReplies
        response == IF wrote /\ ~AllPut(ok1) THEN ErrorReply ELSE r.response
        S1 == IF wrote THEN persist(r.tasks, C, r.nextTaskId, ok1) ELSE storage
        C2 == PushEntry(C, NewEntry(C, message, response, now, context))
    IN  /\ initialized' = TRUE
        /\ tasks' = r.tasks
        /\ nextTaskId' = r.nextTaskId
        /\ conversations' = C2
        /\ storage' = [ tasks         |-> IF ok2["tasks"] THEN r.tasks ELSE S1.tasks,
                        conversations |-> IF ok2["conversations"] THEN C2 ELSE S1.conversations,
                        nextTaskId    |-> IF ok2["nextTaskId"] THEN r.nextTaskId ELSE S1.nextTaskId ]
        /\ assigned' = assigned \o r.ids
        /\ born' = born + Len(r.ids)
        /\ last' = IF AllPut(ok2)
                   THEN [op |-> "chat", intent |-> intent, response |-> response]
                   ELSE [op |-> "chat", intent |-> intent, response |-> [kind |-> "rejected"]]
        /\ UNCHANGED <<now, calls>>

NextWrites ==
    \E i \in WriteChats, ok1 \in PutOutcomes, ok2 \in PutOutcomes :
        /\ Len(LoadedConversations) < MaxChats
        /\ ChatWithWrites(i[1], "{}", i[2], ok1, ok2)

SpecWrites == Init /\ [][NextWrites]_vars

\* C30: whenever a chat call answers with the generic error reply, the
\* task collection and the identifier counter are as before the call, in
\* memory and in storage: a create whose write failed leaves no task behind
ErrorReplyLeavesStore ==
    [][ (last'.op = "chat" /\ last'.response = ErrorReply) =>
            /\ tasks' = LoadedTasks
            /\ nextTaskId' = LoadedNextTaskId
            /\ storage'.tasks = storage.tasks
            /\ (IF storage'.nextTaskId = 0 THEN 1 ELSE storage'.nextTaskId)
                = (IF storage.nextTaskId = 0 THEN 1 ELSE storage.nextTaskId)
      ]_vars

====
